---- MODULE Spec2Model ----
(***************************************************************************)
(* Model of RustPython's dict builtin (vm/src/builtins/dict.rs), its views *)
(* and view iterators, and the position iterator state machine             *)
(* (vm/src/builtins/iter.rs), the map object (vm/src/builtins/map.rs) and  *)
(* the code object (vm/src/builtins/code.rs).                              *)
(*                                                                         *)
(* The entry table dict_inner::Dict is not part of the sources at hand;    *)
(* the dict_* operators below model it from the written specification:     *)
(* an ordered sequence of entry slots, a deleted slot being a tombstone,   *)
(* and a size signature made of the slot count and the live-entry count.   *)
(***************************************************************************)
EXTENDS Integers, Sequences, FiniteSets, TLC

(* ------------------------------ bounds -------------------------------- *)
\* Slots the entry table may hold (live entries and tombstones).
MaxEntries == 4
\* Keyword pairs one update call may carry.
MaxPairs == 2
\* Slots of the entry table while an iterator is being stepped.
IterMaxEntries == 2
\* Length of the sequence object under a sequence iterator.
MaxSeq == 2

\* Hashable keys and stored values; keys and values compare by value.
Keys == {1, 2, 3}
Values == {1, 2}
\* Keys used by the calls interleaved with an iterator.
IterKeys == {1, 2}

\* Python's None, the value OptionalArg::unwrap_or_none supplies.
NoneVal == 0

VARIABLES
    d,       \* the dictionary: [entries, used]
    order,   \* history: keys in order of their latest first-insertion
    ret,     \* the last operation: its inputs and its outcome
    it,      \* the iterator object, once one has been created
    seq,     \* length of the sequence object a sequence iterator walks
    other,   \* dict_other, the dictionary a merge copies from
    merge,   \* the merge_dict call in progress: its locals and loop cursor
    cls,     \* the classes of the two dictionary objects: [d, other]
    it2      \* a second iterator object, created later than it

vars == <<d, order, ret, it, seq, other, merge, cls, it2>>

(* ----------------------- dict_inner::Dict ----------------------------- *)
Tombstone == [live |-> FALSE, key |-> 0, value |-> 0]

Entry(k, v) == [live |-> TRUE, key |-> k, value |-> v]

EmptyDict == [entries |-> <<>>, used |-> 0]

\* 1-based slot of the live entry holding key k, 0 when there is none.
Lookup(D, k) ==
    IF \E i \in 1..Len(D.entries) : D.entries[i].live /\ D.entries[i].key = k
    THEN CHOOSE i \in 1..Len(D.entries) : D.entries[i].live /\ D.entries[i].key = k
    ELSE 0

dict_len(D) == D.used

dict_size(D) == [entries_size |-> Len(D.entries), used |-> D.used]

dict_has_changed_size(D, old) == dict_size(D) # old

dict_contains(D, k) == Lookup(D, k) # 0

dict_get(D, k) ==
    IF Lookup(D, k) # 0
    THEN [found |-> TRUE, value |-> D.entries[Lookup(D, k)].value]
    ELSE [found |-> FALSE, value |-> NoneVal]

dict_insert(D, k, v) ==
    IF Lookup(D, k) # 0
    THEN [D EXCEPT !.entries[Lookup(D, k)].value = v]
    ELSE [entries |-> Append(D.entries, Entry(k, v)), used |-> D.used + 1]

\* Option<value>: the entry's slot becomes a tombstone.
dict_pop(D, k) ==
    IF Lookup(D, k) # 0
    THEN [d |-> [entries |-> [D.entries EXCEPT ![Lookup(D, k)] = Tombstone],
                 used |-> D.used - 1],
          found |-> TRUE, value |-> D.entries[Lookup(D, k)].value]
    ELSE [d |-> D, found |-> FALSE, value |-> NoneVal]

dict_delete(D, k) ==
    IF dict_pop(D, k).found
    THEN [d |-> dict_pop(D, k).d, tag |-> "Ok"]
    ELSE [d |-> D, tag |-> "KeyError"]

\* 1-based slot of the last live entry, 0 when there is none.
LastLive(D) ==
    IF \E i \in 1..Len(D.entries) : D.entries[i].live
    THEN CHOOSE i \in 1..Len(D.entries) :
            /\ D.entries[i].live
            /\ \A j \in (i + 1)..Len(D.entries) : ~D.entries[j].live
    ELSE 0

dict_pop_back(D) ==
    IF LastLive(D) # 0
    THEN [d |-> [entries |-> SubSeq(D.entries, 1, LastLive(D) - 1),
                 used |-> D.used - 1],
          found |-> TRUE,
          key |-> D.entries[LastLive(D)].key,
          value |-> D.entries[LastLive(D)].value]
    ELSE [d |-> D, found |-> FALSE, key |-> 0, value |-> NoneVal]

\* default is the value the producer closure returns; invoked counts its calls.
dict_setdefault(D, k, default) ==
    IF Lookup(D, k) # 0
    THEN [d |-> D, value |-> D.entries[Lookup(D, k)].value, invoked |-> 0]
    ELSE [d |-> dict_insert(D, k, default), value |-> default, invoked |-> 1]

dict_clear(D) == EmptyDict

\* Option<(position, key, value)> for 0-based cursor position: the first live
\* entry at or after position, and the cursor just past it.
RECURSIVE dict_next_entry(_, _)
dict_next_entry(D, position) ==
    IF position >= Len(D.entries)
    THEN [found |-> FALSE, position |-> position, key |-> 0, value |-> NoneVal]
    ELSE IF D.entries[position + 1].live
         THEN [found |-> TRUE, position |-> position + 1,
               key |-> D.entries[position + 1].key,
               value |-> D.entries[position + 1].value]
         ELSE dict_next_entry(D, position + 1)

dict_len_from_entry_index(D, position) ==
    IF Len(D.entries) >= position THEN Len(D.entries) - position ELSE 0

\* Option<(position, key, value)> for 0-based cursor position: the first live
\* entry at or before position, and the cursor just below it (never below 0).
\* Every operation runs to completion, so the scan ends at slot 0.
RECURSIVE dict_prev_entry(_, _)
dict_prev_entry(D, position) ==
    IF position >= Len(D.entries)
    THEN [found |-> FALSE, position |-> position, key |-> 0, value |-> NoneVal]
    ELSE IF D.entries[position + 1].live
         THEN [found |-> TRUE,
               position |-> IF position = 0 THEN 0 ELSE position - 1,
               key |-> D.entries[position + 1].key,
               value |-> D.entries[position + 1].value]
         ELSE IF position = 0
              THEN [found |-> FALSE, position |-> 0, key |-> 0, value |-> NoneVal]
              ELSE dict_prev_entry(D, position - 1)

(* ------------------------------ PyDict -------------------------------- *)
\* Outcome of a dict method: the dictionary afterwards, Ok or the error class,
\* the returned value, the returned key (popitem) and the producer calls.
Outcome(D, tag, val) == [d |-> D, tag |-> tag, val |-> val, rkey |-> 0, n |-> 0]

\* Mutant: an overwrite re-inserts the key, moving it to the end.
Mut_inner_setitem_move(D, key, value) ==
    Outcome(dict_insert(dict_pop(D, key).d, key, value), "Ok", NoneVal)

inner_setitem(D, key, value) == Outcome(dict_insert(D, key, value), "Ok", NoneVal)

\* Mutant: the freed slot is filled with the last slot (swap_remove).
Mut_inner_delitem_swap(D, key) ==
    IF Lookup(D, key) # 0
    THEN Outcome([entries |-> SubSeq([D.entries EXCEPT ![Lookup(D, key)] =
                                          D.entries[Len(D.entries)]],
                                     1, Len(D.entries) - 1),
                  used |-> D.used - 1], "Ok", NoneVal)
    ELSE Outcome(D, "KeyError", NoneVal)

\* Mutant: a missing key is not reported (remove_if_exists).
Mut_inner_delitem_quiet(D, key) == Outcome(dict_pop(D, key).d, "Ok", NoneVal)

inner_delitem(D, key) ==
    Outcome(dict_delete(D, key).d, dict_delete(D, key).tag, NoneVal)

\* Mutant: the slot count, tombstones included, instead of the live count.
Mut_PyDict_len_slots(D) == dict_size(D).entries_size

PyDict_len(D) == dict_len(D)

PyDict_delitem(D, key) == inner_delitem(D, key)

PyDict_clear(D) == Outcome(dict_clear(D), "Ok", NoneVal)

\* Mutant: __setitem__ removes the key first and appends it again.
Mut_PyDict_setitem_reinsert(D, key, value) ==
    Outcome(dict_insert(dict_pop(D, key).d, key, value), "Ok", NoneVal)

PyDict_setitem(D, key, value) == inner_setitem(D, key, value)

\* default is OptionalArg: hasDefault says whether it is Present.
PyDict_get(D, key, hasDefault, default) ==
    IF dict_get(D, key).found
    THEN Outcome(D, "Ok", dict_get(D, key).value)
    ELSE Outcome(D, "Ok", IF hasDefault THEN default ELSE NoneVal)

\* Mutant: the default is produced first and stored whatever the key's state.
Mut_PyDict_setdefault_eager(D, key, hasDefault, default) ==
    [Outcome(dict_insert(D, key, IF hasDefault THEN default ELSE NoneVal), "Ok",
             IF hasDefault THEN default ELSE NoneVal) EXCEPT !.n = 1]

PyDict_setdefault(D, key, hasDefault, default) ==
    LET r == dict_setdefault(D, key, IF hasDefault THEN default ELSE NoneVal)
    IN  [Outcome(r.d, "Ok", r.value) EXCEPT !.n = r.invoked]

\* Mutant: a missing key without a default yields None, as get does.
Mut_PyDict_pop_none(D, key, hasDefault, default) ==
    LET r == dict_pop(D, key)
    IN  IF r.found
        THEN Outcome(r.d, "Ok", r.value)
        ELSE Outcome(r.d, "Ok", IF hasDefault THEN default ELSE NoneVal)

PyDict_pop(D, key, hasDefault, default) ==
    LET r == dict_pop(D, key)
    IN  IF r.found
        THEN Outcome(r.d, "Ok", r.value)
        ELSE IF hasDefault
             THEN Outcome(r.d, "Ok", default)
             ELSE [Outcome(r.d, "KeyError", NoneVal) EXCEPT !.rkey = key]

\* Mutant: the first entry in iteration order is removed, not the last.
Mut_PyDict_popitem_first(D) ==
    LET e == dict_next_entry(D, 0)
    IN  IF e.found
        THEN [Outcome(dict_pop(D, e.key).d, "Ok", e.value) EXCEPT !.rkey = e.key]
        ELSE Outcome(D, "KeyError", NoneVal)

PyDict_popitem(D) ==
    LET r == dict_pop_back(D)
    IN  IF r.found
        THEN [Outcome(r.d, "Ok", r.value) EXCEPT !.rkey = r.key]
        ELSE Outcome(r.d, "KeyError", NoneVal)

\* The keyword loop of update: kwargs is a sequence of <<key, value>>.
RECURSIVE InsertAll(_, _)
InsertAll(D, kwargs) ==
    IF kwargs = <<>>
    THEN D
    ELSE InsertAll(dict_insert(D, kwargs[1][1], kwargs[1][2]), Tail(kwargs))

PyDict_update(D, kwargs) == Outcome(InsertAll(D, kwargs), "Ok", NoneVal)

\* DictIter: the <<key, value>> pairs next() yields from cursor position on.
RECURSIVE DictIter_collect(_, _)
DictIter_collect(D, position) ==
    LET e == dict_next_entry(D, position)
    IN  IF e.found
        THEN <<<<e.key, e.value>>>> \o DictIter_collect(D, e.position)
        ELSE <<>>

DictItems(D) == DictIter_collect(D, 0)

DictKeys(D) == [i \in 1..Len(DictItems(D)) |-> DictItems(D)[i][1]]

(* ----------------- PositionIterInternal (iter.rs) --------------------- *)
\* Outcome of an iterator method: the iterator afterwards, the PyIterReturn
\* variant or error class, the yielded element (rkey, val) and the number n
\* of calls of the closure f.
IterOutcome(I, tag, rkey, val) ==
    [it |-> I, tag |-> tag, rkey |-> rkey, val |-> val, n |-> 0]

\* The result of the closure f(obj, position) handed to next / rev_next.
Fetched(tag, val) == [tag |-> tag, val |-> val]

PosIter_new(type, kind, position, size) ==
    [type |-> type, kind |-> kind, status |-> "Active", position |-> position,
     size |-> size]

\* state is [isInt, v]; f is the identity, as PySequenceIterator passes it.
PosIter_set_state(I, state) ==
    IF I.status = "Active"
    THEN IF state.isInt
         THEN IterOutcome([I EXCEPT !.position = IF state.v < 0 THEN 0 ELSE state.v],
                          "Ok", 0, NoneVal)
         ELSE IterOutcome(I, "TypeError", 0, NoneVal)
    ELSE IterOutcome(I, "Ok", 0, NoneVal)

\* Mutant: the status is not consulted, the fetched result alone decides.
Mut_PosIter_next_unchecked(I, fr) ==
    IF fr.tag = "Return"
    THEN IterOutcome([I EXCEPT !.position = @ + 1], fr.tag, 0, fr.val)
    ELSE IterOutcome([I EXCEPT !.status = "Exhausted"], fr.tag, 0, fr.val)

\* _next with op = |zelf| zelf.position += 1; fr is f(obj, position).
PosIter_next(I, fr) ==
    IF I.status = "Active"
    THEN IF fr.tag = "Return"
         THEN [IterOutcome([I EXCEPT !.position = @ + 1], fr.tag, 0, fr.val)
                  EXCEPT !.n = 1]
         ELSE [IterOutcome([I EXCEPT !.status = "Exhausted"], fr.tag, 0, fr.val)
                  EXCEPT !.n = 1]
    ELSE IterOutcome(I, "StopIteration", 0, NoneVal)

\* _next with op = position == 0 ? Exhausted : position -= 1.
PosIter_rev_next(I, fr) ==
    IF I.status = "Active"
    THEN [(IF fr.tag = "Return"
           THEN IF I.position = 0
                THEN IterOutcome([I EXCEPT !.status = "Exhausted"], fr.tag, 0, fr.val)
                ELSE IterOutcome([I EXCEPT !.position = @ - 1], fr.tag, 0, fr.val)
           ELSE IterOutcome([I EXCEPT !.status = "Exhausted"], fr.tag, 0, fr.val))
             EXCEPT !.n = 1]
    ELSE IterOutcome(I, "StopIteration", 0, NoneVal)

\* Mutant: the hint is one too large.
Mut_PosIter_length_hint_plus(I, n) ==
    IF I.status = "Active" THEN n - I.position + 1 ELSE 0

\* n is f(obj), the length the closure reports.
PosIter_length_hint(I, n) ==
    IF I.status = "Active"
    THEN IF n >= I.position THEN n - I.position ELSE 0
    ELSE 0

\* Mutant: the reverse hint is the cursor itself.
Mut_PosIter_rev_length_hint_cursor(I, n) ==
    IF I.status = "Active" /\ I.position <= n THEN I.position ELSE 0

PosIter_rev_length_hint(I, n) ==
    IF I.status = "Active" /\ I.position <= n THEN I.position + 1 ELSE 0

(* -------------------- PySequenceIterator (iter.rs) -------------------- *)
NoSize == [entries_size |-> 0, used |-> 0]

\* seq.get_item(pos) through PyIterReturn::from_getitem_result: the element
\* (here its index), exhaustion on an out-of-range index, or, when the
\* source fails otherwise (fault), that error.
SeqGetItem(n, pos, fault) ==
    IF fault
    THEN Fetched("OtherError", NoneVal)
    ELSE IF pos < n THEN Fetched("Return", pos) ELSE Fetched("StopIteration", NoneVal)

PySequenceIterator_new == PosIter_new("seq", "keys", 0, NoSize)

\* Mutant: the index after the cursor is fetched.
Mut_PySequenceIterator_next_ahead(I, n, fault) ==
    PosIter_next(I, SeqGetItem(n, I.position + 1, fault))

PySequenceIterator_next(I, n, fault) ==
    PosIter_next(I, SeqGetItem(n, I.position, fault))

PySequenceIterator_setstate(I, state) == PosIter_set_state(I, state)

PySequenceIterator_length_hint(I, n) == IF I.status = "Active" THEN n ELSE 0

\* A reverse position iterator over the same sequence object, stepping with
\* rev_next from the last index.
RevSeqIter_new(n) == PosIter_new("revseq", "keys", IF n = 0 THEN 0 ELSE n - 1, NoSize)

RevSeqIter_next(I, n, fault) ==
    PosIter_rev_next(I, SeqGetItem(n, I.position, fault))

(* ------------- dict_view!: the view iterators (dict.rs) --------------- *)
ViewKinds == {"keys", "values", "items"}

\* $result_fn: the element a keys, values or items iterator yields for an
\* entry, as (rkey, val); the unused half is 0.
ResultKey(kind, key) == IF kind = "values" THEN 0 ELSE key

ResultVal(kind, value) == IF kind = "keys" THEN NoneVal ELSE value

\* Mutant: the new iterator starts one slot in.
Mut_DictIter_new_second(D, kind) == PosIter_new("fwd", kind, 1, dict_size(D))

DictIter_new(D, kind) == PosIter_new("fwd", kind, 0, dict_size(D))

DictIter_length_hint(I) == PosIter_length_hint(I, I.size.entries_size)

\* Mutant: the check compares the lengths, not the size signatures.
Mut_DictIter_next_len(I, D) ==
    IF I.status = "Active"
    THEN IF dict_len(D) # I.size.used
         THEN IterOutcome([I EXCEPT !.status = "Exhausted"], "RuntimeError", 0, NoneVal)
         ELSE LET e == dict_next_entry(D, I.position)
              IN  IF e.found
                  THEN IterOutcome([I EXCEPT !.position = e.position], "Return",
                                   ResultKey(I.kind, e.key), ResultVal(I.kind, e.value))
                  ELSE IterOutcome([I EXCEPT !.status = "Exhausted"],
                                   "StopIteration", 0, NoneVal)
    ELSE IterOutcome(I, "StopIteration", 0, NoneVal)

\* Mutant: the size check raises but leaves the iterator Active.
Mut_DictIter_next_keep(I, D) ==
    IF I.status = "Active"
    THEN IF dict_has_changed_size(D, I.size)
         THEN IterOutcome(I, "RuntimeError", 0, NoneVal)
         ELSE LET e == dict_next_entry(D, I.position)
              IN  IF e.found
                  THEN IterOutcome([I EXCEPT !.position = e.position], "Return",
                                   ResultKey(I.kind, e.key), ResultVal(I.kind, e.value))
                  ELSE IterOutcome([I EXCEPT !.status = "Exhausted"],
                                   "StopIteration", 0, NoneVal)
    ELSE IterOutcome(I, "StopIteration", 0, NoneVal)

DictIter_next(I, D) ==
    IF I.status = "Active"
    THEN IF dict_has_changed_size(D, I.size)
         THEN IterOutcome([I EXCEPT !.status = "Exhausted"], "RuntimeError", 0, NoneVal)
         ELSE LET e == dict_next_entry(D, I.position)
              IN  IF e.found
                  THEN IterOutcome([I EXCEPT !.position = e.position], "Return",
                                   ResultKey(I.kind, e.key), ResultVal(I.kind, e.value))
                  ELSE IterOutcome([I EXCEPT !.status = "Exhausted"],
                                   "StopIteration", 0, NoneVal)
    ELSE IterOutcome(I, "StopIteration", 0, NoneVal)

DictRevIter_new(D, kind) ==
    PosIter_new("rev", kind,
                IF dict_size(D).entries_size = 0 THEN 0 ELSE dict_size(D).entries_size - 1,
                dict_size(D))

DictRevIter_length_hint(I) == PosIter_rev_length_hint(I, I.size.entries_size)

DictRevIter_next(I, D) ==
    IF I.status = "Active"
    THEN IF dict_has_changed_size(D, I.size)
         THEN IterOutcome([I EXCEPT !.status = "Exhausted"], "RuntimeError", 0, NoneVal)
         ELSE LET e == dict_prev_entry(D, I.position)
              IN  IF e.found
                  THEN IterOutcome(IF I.position = e.position
                                   THEN [I EXCEPT !.status = "Exhausted"]
                                   ELSE [I EXCEPT !.position = e.position],
                                   "Return",
                                   ResultKey(I.kind, e.key), ResultVal(I.kind, e.value))
                  ELSE IterOutcome([I EXCEPT !.status = "Exhausted"],
                                   "StopIteration", 0, NoneVal)
    ELSE IterOutcome(I, "StopIteration", 0, NoneVal)

\* DictView::__len__
DictView_len(D) == PyDict_len(D)

(* ----------------------------- history --------------------------------- *)
InSeq(s, x) == \E i \in 1..Len(s) : s[i] = x

OrdInsert(s, k) == IF InSeq(s, k) THEN s ELSE Append(s, k)

OrdRemove(s, k) == SelectSeq(s, LAMBDA x : x # k)

OrdDropLast(s) == IF s = <<>> THEN s ELSE SubSeq(s, 1, Len(s) - 1)

RECURSIVE OrdInsertAll(_, _)
OrdInsertAll(s, kwargs) ==
    IF kwargs = <<>> THEN s ELSE OrdInsertAll(OrdInsert(s, kwargs[1][1]), Tail(kwargs))

\* What the written contract makes of the key order under operation inp.
OrdApply(s, inp) ==
    CASE inp.op = "setitem" -> OrdInsert(s, inp.key)
      [] inp.op = "setdefault" -> OrdInsert(s, inp.key)
      [] inp.op = "delitem" -> OrdRemove(s, inp.key)
      [] inp.op = "pop" -> OrdRemove(s, inp.key)
      [] inp.op = "popitem" -> OrdDropLast(s)
      [] inp.op = "clear" -> <<>>
      [] inp.op = "update" -> OrdInsertAll(s, inp.kwargs)
      [] OTHER -> s

(* ------------------------------ inputs -------------------------------- *)
\* Keyword arguments: at most n <<key, value>> pairs, no keyword twice.
RECURSIVE KwArgs(_, _, _)
KwArgs(K, V, n) ==
    IF n = 0
    THEN {<<>>}
    ELSE LET S == KwArgs(K, V, n - 1)
         IN  S \cup { Append(x[1], <<x[2], x[3]>>) :
                        x \in { y \in S \X K \X V :
                                  /\ Len(y[1]) = n - 1
                                  /\ \A i \in 1..Len(y[1]) : y[1][i][1] # y[2] } }

\* A call: the method, its key, its value or default (hasdef: the optional
\* default is present) and its keyword pairs.
Call(op, key, arg, hasdef, kwargs) ==
    [op |-> op, key |-> key, arg |-> arg, hasdef |-> hasdef, kwargs |-> kwargs]

SetItemCalls == { Call("setitem", k, v, TRUE, <<>>) : k \in Keys, v \in Values }

DelItemCalls == { Call("delitem", k, NoneVal, FALSE, <<>>) : k \in Keys }

OptCalls(op) ==
    { Call(op, k, v, TRUE, <<>>) : k \in Keys, v \in Values }
        \cup { Call(op, k, NoneVal, FALSE, <<>>) : k \in Keys }

PopCalls == OptCalls("pop")

SetDefaultCalls == OptCalls("setdefault")

UpdateCalls == { Call("update", 0, NoneVal, FALSE, kw) : kw \in KwArgs(Keys, Values, MaxPairs) }

\* The method call dispatched on the dictionary D.
ApplyCall(D, inp) ==
    CASE inp.op = "setitem" -> PyDict_setitem(D, inp.key, inp.arg)
      [] inp.op = "delitem" -> PyDict_delitem(D, inp.key)
      [] inp.op = "pop" -> PyDict_pop(D, inp.key, inp.hasdef, inp.arg)
      [] inp.op = "popitem" -> PyDict_popitem(D)
      [] inp.op = "setdefault" -> PyDict_setdefault(D, inp.key, inp.hasdef, inp.arg)
      [] inp.op = "get" -> PyDict_get(D, inp.key, inp.hasdef, inp.arg)
      [] inp.op = "clear" -> PyDict_clear(D)
      [] inp.op = "update" -> PyDict_update(D, inp.kwargs)

Result(inp, o) ==
    [op |-> inp.op, key |-> inp.key, arg |-> inp.arg, hasdef |-> inp.hasdef,
     tag |-> o.tag, val |-> o.val, rkey |-> o.rkey, n |-> o.n]

NoResult ==
    [op |-> "none", key |-> 0, arg |-> NoneVal, hasdef |-> FALSE,
     tag |-> "Ok", val |-> NoneVal, rkey |-> 0, n |-> 0]

NoIter ==
    [type |-> "none", kind |-> "keys", status |-> "Exhausted", position |-> 0,
     size |-> NoSize]

\* The second iterator carries history: count, the elements it has yielded,
\* late, whether it was created right after the first one had raised, and
\* clean, whether the dictionary is as it was when the iterator was created.
NoIter2 ==
    [type |-> "none", kind |-> "keys", status |-> "Exhausted", position |-> 0,
     size |-> NoSize, count |-> 0, late |-> FALSE, clean |-> FALSE]

\* No merge_dict call in progress.  copied and touched are history: the pairs
\* the loop has inserted, and whether dict_other changed during the loop.
NoMerge ==
    [pc |-> "idle", size |-> NoSize, position |-> 0, copied |-> <<>>,
     touched |-> FALSE]

\* The class of a dictionary object: dict itself ("dict"), a subclass
\* ("sub"), or a subclass that defines __missing__ ("missing").
DictClasses == {"dict", "sub", "missing"}

ExactClasses == [d |-> "dict", other |-> "dict"]

(* ------------------------------ actions ------------------------------- *)
\* The model keeps at most cap slots: a call that would need more is not taken.
Do(inp, cap) ==
    LET o == ApplyCall(d, inp)
    IN  /\ Len(o.d.entries) <= cap
        /\ d' = o.d
        /\ order' = OrdApply(order, inp)
        /\ ret' = Result(inp, o)

SetItem == (\E inp \in SetItemCalls : Do(inp, MaxEntries)) /\ UNCHANGED <<it, seq, other, merge, cls, it2>>

DelItem == (\E inp \in DelItemCalls : Do(inp, MaxEntries)) /\ UNCHANGED <<it, seq, other, merge, cls, it2>>

Pop == (\E inp \in PopCalls : Do(inp, MaxEntries)) /\ UNCHANGED <<it, seq, other, merge, cls, it2>>

PopItem == Do(Call("popitem", 0, NoneVal, FALSE, <<>>), MaxEntries) /\ UNCHANGED <<it, seq, other, merge, cls, it2>>

SetDefault == (\E inp \in SetDefaultCalls : Do(inp, MaxEntries)) /\ UNCHANGED <<it, seq, other, merge, cls, it2>>

Clear == Do(Call("clear", 0, NoneVal, FALSE, <<>>), MaxEntries) /\ UNCHANGED <<it, seq, other, merge, cls, it2>>

Update == (\E inp \in UpdateCalls : Do(inp, MaxEntries)) /\ UNCHANGED <<it, seq, other, merge, cls, it2>>

Init ==
    /\ d = EmptyDict
    /\ order = <<>>
    /\ ret = NoResult
    /\ it = NoIter
    /\ seq = 0
    /\ other = EmptyDict
    /\ merge = NoMerge
    /\ cls = ExactClasses
    /\ it2 = NoIter2

Next ==
    \/ SetItem
    \/ DelItem
    \/ Pop
    \/ PopItem
    \/ SetDefault
    \/ Clear
    \/ Update

\* The dictionary under its methods.
Spec == Init /\ [][Next]_vars

(* ------------------- the dictionary and one iterator ------------------- *)
\* The calls interleaved with an iterator, over the keys IterKeys.
IterCalls ==
    { Call("setitem", k, v, TRUE, <<>>) : k \in IterKeys, v \in Values }
        \cup { Call("delitem", k, NoneVal, FALSE, <<>>) : k \in IterKeys }
        \cup { Call("pop", k, NoneVal, hd, <<>>) : k \in IterKeys, hd \in BOOLEAN }
        \cup { Call("setdefault", k, NoneVal, FALSE, <<>>) : k \in IterKeys }
        \cup { Call("popitem", 0, NoneVal, FALSE, <<>>), Call("clear", 0, NoneVal, FALSE, <<>>) }

IterResult(op, arg, isInt, o) ==
    [op |-> op, key |-> 0, arg |-> arg, hasdef |-> isInt,
     tag |-> o.tag, val |-> o.val, rkey |-> o.rkey, n |-> o.n]

DictTypes == {"fwd", "rev"}

SeqTypes == {"seq", "revseq"}

\* A dictionary method call made by other code between two calls on the
\* iterator: of its outcome only the method and Ok or the error are kept.
Mutate ==
    /\ it.type \notin SeqTypes
    /\ \E inp \in IterCalls :
          LET o == ApplyCall(d, inp)
          IN  /\ Len(o.d.entries) <= IterMaxEntries
              /\ d' = o.d
              /\ order' = OrdApply(order, inp)
              /\ ret' = [NoResult EXCEPT !.op = inp.op, !.tag = o.tag]
    /\ UNCHANGED <<it, seq, other, merge, cls, it2>>

\* iter(view) / reversed(view): the iterator object of this behaviour.
NewIter ==
    /\ it.type = "none"
    /\ \E kind \in ViewKinds, rev \in BOOLEAN :
          it' = IF rev THEN DictRevIter_new(d, kind) ELSE DictIter_new(d, kind)
    /\ ret' = IterResult("iter", NoneVal, FALSE, IterOutcome(it', "Ok", 0, NoneVal))
    /\ UNCHANGED <<d, order, seq, other, merge, cls, it2>>

IterNext ==
    /\ it.type \in DictTypes
    /\ LET o == IF it.type = "fwd" THEN DictIter_next(it, d) ELSE DictRevIter_next(it, d)
       IN  /\ it' = o.it
           /\ ret' = IterResult("next", NoneVal, FALSE, o)
    /\ UNCHANGED <<d, order, seq, other, merge, cls, it2>>

LengthHint ==
    /\ it.type \in DictTypes
    /\ ret' = IterResult("length_hint", NoneVal, FALSE,
                         IterOutcome(it, "Ok", 0,
                                     IF it.type = "fwd"
                                     THEN DictIter_length_hint(it)
                                     ELSE DictRevIter_length_hint(it)))
    /\ UNCHANGED <<d, order, it, seq, other, merge, cls, it2>>

\* The sequence iterators are exercised apart from the dictionary: the two
\* share no state.
NewSeqIter ==
    /\ it.type = "none"
    /\ d = EmptyDict /\ ret.op \in {"none", "resize"}
    /\ \E rev \in BOOLEAN :
          it' = IF rev THEN RevSeqIter_new(seq) ELSE PySequenceIterator_new
    /\ ret' = IterResult("iter", NoneVal, FALSE, IterOutcome(it', "Ok", 0, NoneVal))
    /\ UNCHANGED <<d, order, seq, other, merge, cls, it2>>

SeqNext ==
    /\ it.type \in SeqTypes
    /\ \E fault \in BOOLEAN :
          LET o == IF it.type = "seq"
                   THEN PySequenceIterator_next(it, seq, fault)
                   ELSE RevSeqIter_next(it, seq, fault)
          IN  /\ it' = o.it
              /\ ret' = IterResult("next", NoneVal, FALSE, o)
    /\ UNCHANGED <<d, order, seq, other, merge, cls, it2>>

\* __setstate__ with an integer v (isInt) or with another object.
SetStates ==
    { [isInt |-> TRUE, v |-> v] : v \in (0 - 1)..(MaxSeq + 1) }
        \cup { [isInt |-> FALSE, v |-> 0] }

SeqSetState ==
    /\ it.type = "seq"
    /\ \E state \in SetStates :
          LET o == PySequenceIterator_setstate(it, state)
          IN  /\ it' = o.it
              /\ ret' = IterResult("setstate", state.v, state.isInt, o)
    /\ UNCHANGED <<d, order, seq, other, merge, cls, it2>>

SeqLengthHint ==
    /\ it.type = "seq"
    /\ ret' = IterResult("length_hint", NoneVal, FALSE,
                         IterOutcome(it, "Ok", 0, PySequenceIterator_length_hint(it, seq)))
    /\ UNCHANGED <<d, order, it, seq, other, merge, cls, it2>>

\* The sequence object grows or shrinks under the iterator.
SeqResize ==
    /\ it.type \in SeqTypes
          \/ (it.type = "none" /\ d = EmptyDict /\ ret.op \in {"none", "resize"})
    /\ \E n \in 0..MaxSeq : n # seq /\ seq' = n
    /\ ret' = [NoResult EXCEPT !.op = "resize"]
    /\ UNCHANGED <<d, order, it, other, merge, cls, it2>>

NextIter ==
    \/ Mutate
    \/ NewIter
    \/ IterNext
    \/ LengthHint
    \/ NewSeqIter
    \/ SeqNext
    \/ SeqSetState
    \/ SeqLengthHint
    \/ SeqResize

\* The dictionary with a view iterator, or a sequence with its iterator.
SpecIter == Init /\ [][NextIter]_vars

(* ---------------- two iterators over one dictionary ------------------- *)
FreshMaxEntries == 2

\* The iterator record without its history fields.
Bare(I) ==
    [type |-> I.type, kind |-> I.kind, status |-> I.status, position |-> I.position,
     size |-> I.size]

WithHistory(I, count, late, clean) ==
    [type |-> I.type, kind |-> I.kind, status |-> I.status, position |-> I.position,
     size |-> I.size, count |-> count, late |-> late, clean |-> clean]

\* A dictionary method call between two iterator calls; the second iterator
\* remembers that the dictionary was touched after its creation, and the
\* behaviours followed here touch it at most once after that.
FreshMutate ==
    /\ it2.type = "none" \/ it2.clean
    /\ \E inp \in IterCalls :
          LET o == ApplyCall(d, inp)
          IN  /\ Len(o.d.entries) <= FreshMaxEntries
              /\ d' = o.d
              /\ it2' = [it2 EXCEPT !.clean = @ /\ o.d = d]
    /\ ret' = [NoResult EXCEPT !.op = "mutate"]
    /\ UNCHANGED <<order, it, seq, other, merge, cls>>

\* iter(d.keys()): the older iterator.
OldIter ==
    /\ it.type = "none"
    /\ it' = DictIter_new(d, "keys")
    /\ ret' = [NoResult EXCEPT !.op = "iter"]
    /\ UNCHANGED <<d, order, seq, other, merge, cls, it2>>

OldNext ==
    /\ it.type = "fwd"
    /\ LET o == DictIter_next(it, d)
       IN  /\ it' = o.it
           /\ ret' = [NoResult EXCEPT !.op = "next", !.tag = o.tag]
    /\ UNCHANGED <<d, order, seq, other, merge, cls, it2>>

\* iter(view) once more: Iterable::iter builds a new $iter_name.
NewIter2 ==
    /\ it.type = "fwd" /\ it2.type = "none"
    /\ \E kind \in ViewKinds :
          it2' = WithHistory(DictIter_new(d, kind), 0,
                             ret.op = "next" /\ ret.tag = "RuntimeError", TRUE)
    /\ ret' = [NoResult EXCEPT !.op = "iter2"]
    /\ UNCHANGED <<d, order, it, seq, other, merge, cls>>

Iter2Next ==
    /\ it2.type = "fwd"
    /\ LET o == DictIter_next(Bare(it2), d)
       IN  /\ it2' = WithHistory(o.it, IF o.tag = "Return" THEN it2.count + 1
                                       ELSE it2.count, it2.late, it2.clean)
           /\ ret' = IterResult("next2", NoneVal, FALSE, o)
    /\ UNCHANGED <<d, order, it, seq, other, merge, cls>>

NextIter2 ==
    \/ FreshMutate
    \/ OldIter
    \/ OldNext
    \/ NewIter2
    \/ Iter2Next

\* A dictionary with an older and a newer view iterator.
SpecIter2 == Init /\ [][NextIter2]_vars

(* ------------- an iterator and the calls made between its steps ------- *)
\* Slots of the entry table under the iterator.
TouchMaxEntries == 3
\* Dictionary calls made between two steps of the iterator.
MaxTrail == 2

TouchKwArgs == KwArgs(IterKeys, {2}, MaxPairs)

\* The calls made by other code while the iterator is alive.
TouchCalls ==
    { Call("setitem", k, v, TRUE, <<>>) : k \in IterKeys, v \in Values }
        \cup { Call("delitem", k, NoneVal, FALSE, <<>>) : k \in IterKeys }
        \cup { Call("pop", k, NoneVal, TRUE, <<>>) : k \in IterKeys }
        \cup { Call("setdefault", k, 2, TRUE, <<>>) : k \in IterKeys }
        \cup { Call("update", 0, NoneVal, FALSE, kw) : kw \in TouchKwArgs \ {<<>>} }

\* History: what a call is to the dictionary it is made on.  "overwrite": it
\* names present keys only and stores values (setitem, setdefault, update);
\* "insert": setitem or setdefault of an absent key; "delete": delitem or pop
\* of a present key; "other" for the rest.
TouchKind(D, inp) ==
    CASE inp.op \in {"setitem", "setdefault"}
            -> IF dict_contains(D, inp.key) THEN "overwrite" ELSE "insert"
      [] inp.op \in {"delitem", "pop"}
            -> IF dict_contains(D, inp.key) THEN "delete" ELSE "other"
      [] inp.op = "update"
            -> IF \A i \in 1..Len(inp.kwargs) : dict_contains(D, inp.kwargs[i][1])
               THEN "overwrite" ELSE "other"

\* The record of the last call: op, tag and the yielded element as before;
\* trail, the calls on the dictionary since the iterator's last step; seen,
\* the trail the last step found; was, the status that step found; count,
\* the elements yielded so far; touch, "none" while the dictionary has not
\* been called since the iterator was created, "overwrite" while the calls
\* were overwrites only, "other" after any other call.
TouchResult(op, tag, rkey, val, trail, seen, was, count, touch) ==
    [op |-> op, tag |-> tag, rkey |-> rkey, val |-> val, trail |-> trail,
     seen |-> seen, was |-> was, count |-> count, touch |-> touch]

\* The dictionary is filled, and entries are deleted, before the iterator
\* is created.
TouchFill ==
    /\ it.type = "none" /\ ret.op \in {"none", "fill"}
    /\ \E inp \in TouchCalls :
          LET o == ApplyCall(d, inp)
          IN  /\ Len(o.d.entries) <= TouchMaxEntries
              /\ d' = o.d
              /\ order' = OrdApply(order, inp)
    /\ ret' = [NoResult EXCEPT !.op = "fill"]
    /\ UNCHANGED <<it, seq, other, merge, cls, it2>>

\* iter(view) / reversed(view)
TouchIter ==
    /\ it.type = "none" /\ ret.op \in {"none", "fill"}
    /\ \E kind \in ViewKinds, rev \in BOOLEAN :
          it' = IF rev THEN DictRevIter_new(d, kind) ELSE DictIter_new(d, kind)
    /\ ret' = TouchResult("iter", "Ok", 0, NoneVal, <<>>, <<>>, "Active", 0, "none")
    /\ UNCHANGED <<d, order, seq, other, merge, cls, it2>>

\* A call on the dictionary between two steps of the iterator; of its
\* outcome nothing is kept but what it is to the dictionary.
TouchMutate ==
    /\ it.type \in DictTypes /\ it.status = "Active"
    /\ Len(ret.trail) < MaxTrail
    /\ \E inp \in TouchCalls :
          LET o == ApplyCall(d, inp)
              kind == TouchKind(d, inp)
          IN  /\ Len(o.d.entries) <= TouchMaxEntries
              /\ d' = o.d
              /\ order' = OrdApply(order, inp)
              /\ ret' = TouchResult("call", "Ok", 0, NoneVal,
                                    Append(ret.trail,
                                           [kind |-> kind,
                                            key |-> IF kind \in {"insert", "delete"}
                                                    THEN inp.key ELSE 0]),
                                    <<>>, "Active", ret.count,
                                    IF kind = "overwrite" /\ ret.touch # "other"
                                    THEN "overwrite" ELSE "other")
    /\ UNCHANGED <<it, seq, other, merge, cls, it2>>

\* next(it)
TouchNext ==
    /\ it.type \in DictTypes
    /\ LET o == IF it.type = "fwd" THEN DictIter_next(it, d) ELSE DictRevIter_next(it, d)
       IN  /\ it' = o.it
           /\ ret' = TouchResult("next", o.tag, o.rkey, o.val, <<>>, ret.trail,
                                 it.status,
                                 IF o.tag = "Return" THEN ret.count + 1 ELSE ret.count,
                                 ret.touch)
    /\ UNCHANGED <<d, order, seq, other, merge, cls, it2>>

NextTouch ==
    \/ TouchFill
    \/ TouchIter
    \/ TouchMutate
    \/ TouchNext

\* A dictionary, one view iterator and the calls made between its steps.
SpecTouch == Init /\ [][NextTouch]_vars

(* ---------- one step of next() beside a thread that mutates ---------- *)
\* Slots of the entry table the two threads share.
LockMaxEntries == 2

\* The iterator object with its PyMutex: locked, whether the mutex is held,
\* and pc, where the thread that called next() stands: "idle" outside a
\* call, "locked" after internal.lock(), "checked" after the size test.
WithLock(I, locked, pc) ==
    [type |-> I.type, kind |-> I.kind, status |-> I.status, position |-> I.position,
     size |-> I.size, locked |-> locked, pc |-> pc]

\* let mut internal = zelf.internal.lock(): the caller waits while another
\* call holds the mutex.
DictIter_lock(I) == [I EXCEPT !.locked = TRUE, !.pc = "locked"]

\* Mutant: the error return leaves the mutex held.
Mut_DictIter_check_held(I, D) ==
    IF I.status = "Active"
    THEN IF dict_has_changed_size(D, I.size)
         THEN [it |-> [I EXCEPT !.status = "Exhausted", !.pc = "idle"],
               tag |-> "RuntimeError"]
         ELSE [it |-> [I EXCEPT !.pc = "checked"], tag |-> "Ok"]
    ELSE [it |-> [I EXCEPT !.locked = FALSE, !.pc = "idle"], tag |-> "StopIteration"]

\* The status match and the size test of next(): an early return drops the
\* guard; tag "Ok" stands for going on to the entry fetch.
DictIter_check(I, D) ==
    IF I.status = "Active"
    THEN IF dict_has_changed_size(D, I.size)
         THEN [it |-> [I EXCEPT !.status = "Exhausted", !.locked = FALSE, !.pc = "idle"],
               tag |-> "RuntimeError"]
         ELSE [it |-> [I EXCEPT !.pc = "checked"], tag |-> "Ok"]
    ELSE [it |-> [I EXCEPT !.locked = FALSE, !.pc = "idle"], tag |-> "StopIteration"]

\* The entry fetch of next() and its return, which drops the guard.
DictIter_fetch(I, D) ==
    LET e == dict_next_entry(D, I.position)
    IN  IF e.found
        THEN [it |-> [I EXCEPT !.position = e.position, !.locked = FALSE, !.pc = "idle"],
              tag |-> "Return",
              rkey |-> ResultKey(I.kind, e.key), val |-> ResultVal(I.kind, e.value)]
        ELSE [it |-> [I EXCEPT !.status = "Exhausted", !.locked = FALSE, !.pc = "idle"],
              tag |-> "StopIteration", rkey |-> 0, val |-> NoneVal]

LockCalls ==
    { Call("setitem", k, v, TRUE, <<>>) : k \in IterKeys, v \in Values }
        \cup { Call("delitem", k, NoneVal, FALSE, <<>>) : k \in IterKeys }

\* The record of the last event, with history: changed, a call has changed
\* the size signature since the iterator was created; began, the step in
\* progress or just returned began after such a call had returned; was, the
\* status that step found; inside, "this" when such a call returned between
\* the size test and the entry fetch of that step, "prev" when it did so in
\* the step before it.
LockResult(op, tag, rkey, val, changed, began, was, inside) ==
    [op |-> op, tag |-> tag, rkey |-> rkey, val |-> val, changed |-> changed,
     began |-> began, was |-> was, inside |-> inside]

\* The dictionary is filled before the iterator is created.
LockFill ==
    /\ it.type = "none" /\ ret.op \in {"none", "fill"}
    /\ \E inp \in LockCalls :
          LET o == ApplyCall(d, inp)
          IN  /\ Len(o.d.entries) <= LockMaxEntries
              /\ d' = o.d
              /\ order' = OrdApply(order, inp)
    /\ ret' = [NoResult EXCEPT !.op = "fill"]
    /\ UNCHANGED <<it, seq, other, merge, cls, it2>>

\* iter(view)
LockIter ==
    /\ it.type = "none" /\ ret.op \in {"none", "fill"}
    /\ \E kind \in ViewKinds : it' = WithLock(DictIter_new(d, kind), FALSE, "idle")
    /\ ret' = LockResult("iter", "Ok", 0, NoneVal, FALSE, FALSE, "Active", "no")
    /\ UNCHANGED <<d, order, seq, other, merge, cls, it2>>

\* The other thread: one call on the dictionary, which the entry table's
\* own lock makes atomic, at any point of the iterating thread.
LockMutate ==
    /\ it.type = "fwd"
    /\ \E inp \in LockCalls :
          LET o == ApplyCall(d, inp)
              bumped == dict_size(o.d) # dict_size(d)
          IN  /\ Len(o.d.entries) <= LockMaxEntries
              /\ d' = o.d
              /\ order' = OrdApply(order, inp)
              /\ ret' = [ret EXCEPT !.op = "call",
                                     !.changed = @ \/ bumped,
                                     !.inside = IF bumped /\ it.pc = "checked"
                                                THEN "this" ELSE @]
    /\ UNCHANGED <<it, seq, other, merge, cls, it2>>

\* next(it) is called: the thread takes the iterator's mutex.
StepBegin ==
    /\ it.type = "fwd" /\ it.pc = "idle" /\ ~it.locked
    /\ it' = DictIter_lock(it)
    /\ ret' = LockResult("begin", "Ok", 0, NoneVal, ret.changed,
                         ret.changed, it.status,
                         IF ret.inside = "this" THEN "prev" ELSE "no")
    /\ UNCHANGED <<d, order, seq, other, merge, cls, it2>>

StepCheck ==
    /\ it.type = "fwd" /\ it.pc = "locked"
    /\ LET o == DictIter_check(it, d)
       IN  /\ it' = o.it
           /\ ret' = [ret EXCEPT !.op = IF o.tag = "Ok" THEN "check" ELSE "next",
                                  !.tag = o.tag]
    /\ UNCHANGED <<d, order, seq, other, merge, cls, it2>>

StepFetch ==
    /\ it.type = "fwd" /\ it.pc = "checked"
    /\ LET o == DictIter_fetch(it, d)
       IN  /\ it' = o.it
           /\ ret' = [ret EXCEPT !.op = "next", !.tag = o.tag, !.rkey = o.rkey,
                                  !.val = o.val]
    /\ UNCHANGED <<d, order, seq, other, merge, cls, it2>>

NextLock ==
    \/ LockFill
    \/ LockIter
    \/ LockMutate
    \/ StepBegin
    \/ StepCheck
    \/ StepFetch

\* A thread stepping a forward iterator and a thread calling the dictionary.
SpecLock == Init /\ [][NextLock]_vars

(* ------------------ merge from an exact dictionary -------------------- *)
\* Slots of the source dictionary and of the target before the merge.
MergeMaxEntries == 2

\* merge_dict up to its loop: the source's size signature is captured and
\* DictIter::new puts the cursor at 0.
merge_dict_begin(O) ==
    [pc |-> "loop", size |-> dict_size(O), position |-> 0, copied |-> <<>>,
     touched |-> FALSE]

\* One turn of the loop, DictIter::next having found entry e of the source:
\* dict.insert(key, value)?  An insert that fails (the key's __hash__ or
\* __eq__ raised) ends the call with that error.
merge_dict_step(D, M, e, fault) ==
    IF fault
    THEN [d |-> D, m |-> [M EXCEPT !.pc = "done"], tag |-> "OtherError"]
    ELSE [d |-> dict_insert(D, e.key, e.value),
          m |-> [M EXCEPT !.position = e.position,
                          !.copied = Append(@, <<e.key, e.value>>)],
          tag |-> "Ok"]

\* Mutant: the size signature is not compared after the loop.
Mut_merge_dict_check_skipped(O, M) == "Ok"

\* After the loop: has_changed_size against the captured signature.
merge_dict_check(O, M) ==
    IF dict_has_changed_size(O, M.size) THEN "RuntimeError" ELSE "Ok"

MergeCalls ==
    { Call("setitem", k, v, TRUE, <<>>) : k \in IterKeys, v \in Values }
        \cup { Call("delitem", k, NoneVal, FALSE, <<>>) : k \in IterKeys }
        \cup { Call("popitem", 0, NoneVal, FALSE, <<>>), Call("clear", 0, NoneVal, FALSE, <<>>) }

MergeIsolated == it.type = "none" /\ seq = 0

\* The source dictionary is modified: before the merge, or during its loop by
\* the code a key's __hash__/__eq__ runs inside dict.insert, or by another
\* thread.
MergeSource ==
    /\ MergeIsolated
    /\ merge.pc \in {"idle", "loop"}
    /\ \E inp \in MergeCalls :
          LET o == ApplyCall(other, inp)
          IN  /\ Len(o.d.entries) <= MergeMaxEntries
              /\ other' = o.d
              /\ ret' = [NoResult EXCEPT !.op = "source", !.tag = o.tag]
              /\ merge' = IF merge.pc = "loop" /\ o.d # other
                          THEN [merge EXCEPT !.touched = TRUE]
                          ELSE merge
    /\ UNCHANGED <<d, order, it, seq, cls, it2>>

\* The target dictionary is filled before the merge.
MergeTarget ==
    /\ MergeIsolated
    /\ merge.pc = "idle"
    /\ \E inp \in { c \in MergeCalls : c.op = "setitem" } :
          LET o == ApplyCall(d, inp)
          IN  /\ Len(o.d.entries) <= MergeMaxEntries
              /\ d' = o.d
              /\ order' = OrdApply(order, inp)
              /\ ret' = [NoResult EXCEPT !.op = "target", !.tag = o.tag]
    /\ UNCHANGED <<it, seq, other, merge, cls, it2>>

\* d.update(other), d |= other: merge_object finds an exact dictionary and
\* enters merge_dict.
MergeBegin ==
    /\ MergeIsolated
    /\ merge.pc = "idle"
    /\ merge' = merge_dict_begin(other)
    /\ ret' = [NoResult EXCEPT !.op = "merge_begin"]
    /\ UNCHANGED <<d, order, it, seq, other, cls, it2>>

MergeStep ==
    /\ merge.pc = "loop"
    /\ LET e == dict_next_entry(other, merge.position)
       IN  /\ e.found
           /\ \E fault \in BOOLEAN :
                 LET o == merge_dict_step(d, merge, e, fault)
                 IN  /\ d' = o.d
                     /\ merge' = o.m
                     /\ order' = IF fault THEN order ELSE OrdInsert(order, e.key)
                     /\ ret' = [NoResult EXCEPT !.op = "merge_step", !.tag = o.tag]
    /\ UNCHANGED <<it, seq, other, cls, it2>>

\* DictIter::next returns None: the loop ends and merge_dict returns.
MergeFinish ==
    /\ merge.pc = "loop"
    /\ ~dict_next_entry(other, merge.position).found
    /\ merge' = [merge EXCEPT !.pc = "done"]
    /\ ret' = [NoResult EXCEPT !.op = "merge_dict",
                               !.tag = merge_dict_check(other, merge)]
    /\ UNCHANGED <<d, order, it, seq, other, cls, it2>>

\* The caller has the result; another merge may follow.
MergeReturn ==
    /\ merge.pc = "done"
    /\ merge' = NoMerge
    /\ ret' = [NoResult EXCEPT !.op = "merge_return"]
    /\ UNCHANGED <<d, order, it, seq, other, cls, it2>>

NextMerge ==
    \/ MergeSource
    \/ MergeTarget
    \/ MergeBegin
    \/ MergeStep
    \/ MergeFinish
    \/ MergeReturn

\* A dictionary merged from another exact dictionary.
SpecMerge == Init /\ [][NextMerge]_vars

(* ------------- update: merge_object and the keyword pairs -------------- *)
\* Elements of a positional source.
MaxElems == 2

\* An element of a source: it yields len values, of which the first is key
\* and the second value; len = -1 is an element that is not iterable.
Elem(len, key, value) == [len |-> len, key |-> key, value |-> value]

PairOf(e) == <<e.key, e.value>>

Pairs(elems) == [i \in 1..Len(elems) |-> PairOf(elems[i])]

\* Mutant: the arity check comes after the insert.
RECURSIVE Mut_merge_pairs_late(_, _, _)
Mut_merge_pairs_late(D, elems, i) ==
    IF elems = <<>> THEN [Outcome(D, "Ok", NoneVal) EXCEPT !.n = i]
    ELSE IF elems[1].len = -1 THEN [Outcome(D, "TypeError", NoneVal) EXCEPT !.n = i]
    ELSE IF elems[1].len < 2 THEN [Outcome(D, "ValueError", NoneVal) EXCEPT !.n = i]
    ELSE IF elems[1].len > 2
         THEN [Outcome(dict_insert(D, elems[1].key, elems[1].value),
                       "ValueError", NoneVal) EXCEPT !.n = i]
    ELSE Mut_merge_pairs_late(dict_insert(D, elems[1].key, elems[1].value),
                              Tail(elems), i + 1)

\* merge_object, the loop over a plain iterable: i elements have been
\* inserted so far (returned as n).  get_iter fails on an element that is not
\* iterable; a first or second value missing, or a third present, is err(vm).
RECURSIVE merge_pairs(_, _, _)
merge_pairs(D, elems, i) ==
    IF elems = <<>> THEN [Outcome(D, "Ok", NoneVal) EXCEPT !.n = i]
    ELSE IF elems[1].len = -1 THEN [Outcome(D, "TypeError", NoneVal) EXCEPT !.n = i]
    ELSE IF elems[1].len # 2 THEN [Outcome(D, "ValueError", NoneVal) EXCEPT !.n = i]
    ELSE merge_pairs(dict_insert(D, elems[1].key, elems[1].value), Tail(elems), i + 1)

\* merge_object, the loop over keys(): other.get_item(key), then insert.
merge_keys(D, elems) ==
    [Outcome(InsertAll(D, Pairs(elems)), "Ok", NoneVal) EXCEPT !.n = Len(elems)]

\* merge_dict run without anything else touching dict_other.
RECURSIVE merge_dict_loop(_, _, _)
merge_dict_loop(D, O, M) ==
    LET e == dict_next_entry(O, M.position)
    IN  IF e.found
        THEN merge_dict_loop(merge_dict_step(D, M, e, FALSE).d, O,
                             merge_dict_step(D, M, e, FALSE).m)
        ELSE [Outcome(D, merge_dict_check(O, M), NoneVal) EXCEPT !.n = Len(M.copied)]

merge_dict(D, O) == merge_dict_loop(D, O, merge_dict_begin(O))

\* A positional source: an exact dictionary ("dict"), an object with keys()
\* ("keys") or a plain iterable ("pairs"), holding elems.
Source(kind, elems) == [kind |-> kind, elems |-> elems]

merge_object(D, src) ==
    CASE src.kind = "dict" -> merge_dict(D, InsertAll(EmptyDict, Pairs(src.elems)))
      [] src.kind = "keys" -> merge_keys(D, src.elems)
      [] src.kind = "pairs" -> merge_pairs(D, src.elems, 0)

\* Mutant: the keyword pairs are inserted before the positional source.
Mut_PyDict_update_from_kwfirst(D, src, kwargs) ==
    LET m == merge_object(InsertAll(D, kwargs), src)
    IN  IF m.tag # "Ok" THEN [m EXCEPT !.d = merge_object(D, src).d] ELSE m

\* update with the positional argument present.
PyDict_update_from(D, src, kwargs) ==
    LET m == merge_object(D, src)
    IN  IF m.tag # "Ok" THEN m ELSE [PyDict_update(m.d, kwargs) EXCEPT !.n = m.n]

\* Sequences over S of length at most n.
RECURSIVE SeqsUpTo(_, _)
SeqsUpTo(S, n) ==
    IF n = 0 THEN {<<>>}
    ELSE SeqsUpTo(S, n - 1)
            \cup { Append(x[1], x[2]) : x \in { y \in SeqsUpTo(S, n - 1) \X S : Len(y[1]) = n - 1 } }

GoodElems == { Elem(2, k, v) : k \in Keys, v \in Values }

BadElems ==
    { Elem(3, k, v) : k \in Keys, v \in Values }
        \cup { Elem(1, k, NoneVal) : k \in Keys }
        \cup { Elem(0, 0, NoneVal), Elem(-1, 0, NoneVal) }

Distinct(elems) == \A i, j \in 1..Len(elems) : elems[i].key = elems[j].key => i = j

\* The plain iterables of the arity check.
PairSources == { Source("pairs", es) : es \in SeqsUpTo(GoodElems \cup BadElems, MaxElems) }

\* The positional sources of update(source, **kwargs).
UpdateSources ==
    { Source("pairs", es) : es \in SeqsUpTo(GoodElems \cup {Elem(0, 0, NoneVal)}, MaxElems) }
        \cup { Source(kind, es) : kind \in {"dict", "keys"},
                                  es \in { x \in SeqsUpTo(GoodElems, MaxElems) : Distinct(x) } }

\* The keyword arguments of update: every keyword carries the value 2.
UpdateKwArgs == KwArgs(Keys, {2}, MaxPairs)

\* The outcome of update(src, **kwargs) on the dictionary d0.
UpdateResult(d0, src, kwargs, o) ==
    [op |-> "update_from", tag |-> o.tag, n |-> o.n, d0 |-> d0, src |-> src,
     kwargs |-> kwargs]

UpdateDo(src, kwargs) ==
    LET o == PyDict_update_from(d, src, kwargs)
    IN  /\ d' = o.d
        /\ order' = OrdInsertAll(OrdInsertAll(order, SubSeq(Pairs(src.elems), 1, o.n)),
                                 IF o.tag = "Ok" THEN kwargs ELSE <<>>)
        /\ ret' = UpdateResult(d, src, kwargs, o)

UpdateReady == MergeIsolated /\ merge.pc = "idle" /\ ret.op \in {"none", "target"}

\* d.update(iterable of pairs)
UpdatePairs ==
    /\ UpdateReady
    /\ \E src \in PairSources : UpdateDo(src, <<>>)
    /\ UNCHANGED <<it, seq, other, merge, cls, it2>>

\* d.update(source, **kwargs)
UpdateFrom ==
    /\ UpdateReady
    /\ \E src \in UpdateSources, kwargs \in UpdateKwArgs : UpdateDo(src, kwargs)
    /\ UNCHANGED <<it, seq, other, merge, cls, it2>>

NextUpdate ==
    \/ MergeTarget
    \/ UpdatePairs
    \/ UpdateFrom

\* A dictionary, filled, then updated from a positional source.
SpecUpdate == Init /\ [][NextUpdate]_vars

(* ------------- item access, __missing__ and comparison ---------------- *)
\* Slots of each of the two dictionaries that are compared.
CmpMaxEntries == 2

\* A value that is not equal to itself (a float nan).
NaNVal == 3

\* What the __missing__ hook of a subclass returns.
MissingResult == 5

CmpValues == Values \cup {NaNVal}

\* vm.bool_eq on the values of the model: all are equal by value to each
\* other, except that NaNVal equals nothing.
bool_eq(a, b) == a # NaNVal /\ b # NaNVal

\* Option<value> of calling __missing__(key), None when the class has no
\* such method; n counts the calls of the hook.
missing_opt(c, key) ==
    IF c = "missing"
    THEN [found |-> TRUE, value |-> MissingResult, n |-> 1]
    ELSE [found |-> FALSE, value |-> NoneVal, n |-> 0]

\* Mutant: the hook is asked first, the entries after.
Mut_inner_getitem_hookfirst(D, c, key) ==
    IF missing_opt(c, key).found
    THEN [Outcome(D, "Ok", missing_opt(c, key).value) EXCEPT !.n = 1]
    ELSE IF dict_get(D, key).found
         THEN Outcome(D, "Ok", dict_get(D, key).value)
         ELSE [Outcome(D, "KeyError", NoneVal) EXCEPT !.rkey = key]

\* __getitem__ and the mapping subscript both come here.
inner_getitem(D, c, key) ==
    IF dict_get(D, key).found
    THEN Outcome(D, "Ok", dict_get(D, key).value)
    ELSE IF missing_opt(c, key).found
         THEN [Outcome(D, "Ok", missing_opt(c, key).value) EXCEPT !.n = missing_opt(c, key).n]
         ELSE [Outcome(D, "KeyError", NoneVal) EXCEPT !.rkey = key]

\* Option<value>: an exact dict looks into its entries; any other class is
\* subscripted as an object (which, __getitem__ not being overridden, is
\* inner_getitem) and a key error falls back to missing_opt.
get_item_opt(D, c, key) ==
    IF c = "dict"
    THEN [found |-> dict_get(D, key).found, value |-> dict_get(D, key).value, n |-> 0]
    ELSE LET o == inner_getitem(D, c, key)
         IN  IF o.tag = "Ok"
             THEN [found |-> TRUE, value |-> o.val, n |-> o.n]
             ELSE missing_opt(c, key)

\* PyComparisonOp::eval_ord on the ordering of a and b.
eval_ord(op, a, b) ==
    CASE op = "Eq" -> a = b
      [] op = "Ne" -> a # b
      [] op = "Lt" -> a < b
      [] op = "Le" -> a <= b
      [] op = "Gt" -> a > b
      [] op = "Ge" -> a >= b

\* The loop of inner_cmp over the items of the subset.
RECURSIVE inner_cmp_loop(_, _, _, _)
inner_cmp_loop(items, S, cs, item) ==
    IF items = <<>>
    THEN TRUE
    ELSE LET g == get_item_opt(S, cs, items[1][1])
         IN  IF g.found
             THEN IF items[1][2] = g.value
                  THEN inner_cmp_loop(Tail(items), S, cs, item)
                  ELSE IF item /\ ~bool_eq(items[1][2], g.value)
                       THEN FALSE
                       ELSE inner_cmp_loop(Tail(items), S, cs, item)
             ELSE FALSE

RECURSIVE inner_cmp(_, _, _, _, _, _)
inner_cmp(A, ca, B, cb, op, item) ==
    IF op = "Ne"
    THEN ~inner_cmp(A, ca, B, cb, "Eq", item)
    ELSE IF ~eval_ord(op, PyDict_len(A), PyDict_len(B))
         THEN FALSE
         ELSE IF PyDict_len(A) < PyDict_len(B)
              THEN inner_cmp_loop(DictItems(A), B, cb, item)
              ELSE inner_cmp_loop(DictItems(B), A, ca, item)

\* Comparable::cmp through eq_only: == is inner_cmp, != its negation, any
\* other operator is not implemented.
PyDict_cmp(A, ca, B, cb, op) ==
    CASE op = "Eq" -> [tag |-> "Ok", val |-> inner_cmp(A, ca, B, cb, "Eq", TRUE)]
      [] op = "Ne" -> [tag |-> "Ok", val |-> ~inner_cmp(A, ca, B, cb, "Eq", TRUE)]
      [] OTHER -> [tag |-> "NotImplemented", val |-> FALSE]

\* PyDict::__getitem__
PyDict_getitem(D, c, key) == inner_getitem(D, c, key)

\* ViewSetOps::cmp of a keys or items view of A with a view of the same
\* kind of B: inner_cmp of the two dictionaries, values compared for every
\* view but the keys view.
ViewSetOps_cmp(A, ca, kind, B, cb, op) ==
    [tag |-> "Ok", val |-> inner_cmp(A, ca, B, cb, op, kind # "keys")]

CmpCalls ==
    { Call("setitem", k, v, TRUE, <<>>) : k \in IterKeys, v \in CmpValues }
        \cup { Call("delitem", k, NoneVal, FALSE, <<>>) : k \in IterKeys }

\* The two objects are created: instances of dict or of subclasses of it.
Subclass ==
    /\ MergeIsolated /\ merge.pc = "idle"
    /\ d = EmptyDict /\ other = EmptyDict /\ ret.op = "none"
    /\ cls = ExactClasses
    /\ \E c \in [{"d", "other"} -> DictClasses] : c # ExactClasses /\ cls' = c
    /\ ret' = [NoResult EXCEPT !.op = "new"]
    /\ UNCHANGED <<d, order, it, seq, other, merge, it2>>

CmpLeft ==
    /\ MergeIsolated /\ merge.pc = "idle"
    /\ \E inp \in CmpCalls :
          LET o == ApplyCall(d, inp)
          IN  /\ Len(o.d.entries) <= CmpMaxEntries
              /\ d' = o.d
              /\ order' = OrdApply(order, inp)
              /\ ret' = [NoResult EXCEPT !.op = "left", !.tag = o.tag]
    /\ UNCHANGED <<it, seq, other, merge, cls, it2>>

CmpRight ==
    /\ MergeIsolated /\ merge.pc = "idle"
    /\ \E inp \in CmpCalls :
          LET o == ApplyCall(other, inp)
          IN  /\ Len(o.d.entries) <= CmpMaxEntries
              /\ other' = o.d
              /\ ret' = [NoResult EXCEPT !.op = "right", !.tag = o.tag]
    /\ UNCHANGED <<d, order, it, seq, merge, cls, it2>>

\* d == other, d != other, d < other
Compare ==
    /\ MergeIsolated /\ merge.pc = "idle"
    /\ \E op \in {"Eq", "Ne", "Lt"} :
          LET o == PyDict_cmp(d, cls.d, other, cls.other, op)
          IN  ret' = [NoResult EXCEPT !.op = "cmp", !.arg = op, !.tag = o.tag,
                                      !.val = o.val]
    /\ UNCHANGED <<d, order, it, seq, other, merge, cls, it2>>

\* d.keys() <= other.keys(), d.items() == other.items(), ...
ViewCompare ==
    /\ MergeIsolated /\ merge.pc = "idle"
    /\ \E op \in {"Eq", "Ne", "Lt", "Le", "Gt", "Ge"}, kind \in {"keys", "items"} :
          LET o == ViewSetOps_cmp(d, cls.d, kind, other, cls.other, op)
          IN  ret' = [op |-> "viewcmp", arg |-> op, kind |-> kind, tag |-> o.tag,
                      val |-> o.val]
    /\ UNCHANGED <<d, order, it, seq, other, merge, cls, it2>>

NextCmp ==
    \/ Subclass
    \/ CmpLeft
    \/ CmpRight
    \/ Compare
    \/ ViewCompare

\* Two dictionaries and their comparison.
SpecCmp == Init /\ [][NextCmp]_vars

\* d[key]
GetItem ==
    /\ it.type = "none"
    /\ \E key \in IterKeys :
          ret' = Result(Call("getitem", key, NoneVal, FALSE, <<>>),
                        PyDict_getitem(d, cls.d, key))
    /\ UNCHANGED <<d, order, it, seq, other, merge, cls, it2>>

\* d.get(key), d.get(key, default)
Get ==
    /\ it.type = "none"
    /\ \E key \in IterKeys, hasdef \in BOOLEAN :
          LET inp == Call("get", key, IF hasdef THEN 1 ELSE NoneVal, hasdef, <<>>)
          IN  ret' = Result(inp, ApplyCall(d, inp))
    /\ UNCHANGED <<d, order, it, seq, other, merge, cls, it2>>

NextGetItem ==
    \/ Subclass
    \/ Mutate
    \/ GetItem
    \/ Get

\* A dictionary, possibly of a subclass with __missing__, and its lookups.
SpecGetItem == Init /\ [][NextGetItem]_vars

(* -------------------- callable-sentinel iterator ---------------------- *)
MaxSteps == 5

\* What one invocation of the wrapped callable does: it raises, or returns
\* one of the values.
CallResults == [raises : BOOLEAN, value : CmpValues]

\* PyCallableIterator::new: the sentinel and IterStatus::Active(callable).
\* calls counts the invocations of the callable, steps the next() calls
\* and errors the next() calls that returned an error.
PyCallableIterator_new(sentinel) ==
    [type |-> "callable", sentinel |-> sentinel, status |-> "Active",
     calls |-> 0, steps |-> 0, errors |-> 0]

\* Mutant: an error exhausts the iterator, as it does a position iterator.
Mut_PyCallableIterator_next_exhausts(I, res, eqfault) ==
    IF I.status = "Active"
    THEN IF res.raises \/ eqfault
         THEN [IterOutcome([I EXCEPT !.status = "Exhausted"],
                           "OtherError", 0, NoneVal) EXCEPT !.n = 1]
         ELSE IF bool_eq(res.value, I.sentinel)
              THEN [IterOutcome([I EXCEPT !.status = "Exhausted"],
                                "StopIteration", 0, NoneVal) EXCEPT !.n = 1]
              ELSE [IterOutcome(I, "Return", 0, res.value) EXCEPT !.n = 1]
    ELSE IterOutcome(I, "StopIteration", 0, NoneVal)

\* Mutant: the result is compared with the sentinel by identity.
Mut_PyCallableIterator_next_identity(I, res, eqfault) ==
    IF I.status = "Active"
    THEN IF res.raises \/ eqfault
         THEN [IterOutcome(I, "OtherError", 0, NoneVal) EXCEPT !.n = 1]
         ELSE IF res.value = I.sentinel
              THEN [IterOutcome([I EXCEPT !.status = "Exhausted"],
                                "StopIteration", 0, NoneVal) EXCEPT !.n = 1]
              ELSE [IterOutcome(I, "Return", 0, res.value) EXCEPT !.n = 1]
    ELSE IterOutcome(I, "StopIteration", 0, NoneVal)

\* IterNext for PyCallableIterator: while Active, invoke the callable (an
\* error leaves at `?`), compare the result with the sentinel by vm.bool_eq
\* (an error of the comparison, eqfault, leaves at `?` too), exhaust on
\* equality and return the result otherwise; once Exhausted, StopIteration.
PyCallableIterator_next(I, res, eqfault) ==
    IF I.status = "Active"
    THEN IF res.raises \/ eqfault
         THEN [IterOutcome(I, "OtherError", 0, NoneVal) EXCEPT !.n = 1]
         ELSE IF bool_eq(res.value, I.sentinel)
              THEN [IterOutcome([I EXCEPT !.status = "Exhausted"],
                                "StopIteration", 0, NoneVal) EXCEPT !.n = 1]
              ELSE [IterOutcome(I, "Return", 0, res.value) EXCEPT !.n = 1]
    ELSE IterOutcome(I, "StopIteration", 0, NoneVal)

\* iter(callable, sentinel)
NewCallableIter ==
    /\ it.type = "none"
    /\ \E sentinel \in CmpValues : it' = PyCallableIterator_new(sentinel)
    /\ ret' = [NoResult EXCEPT !.op = "iter"]
    /\ UNCHANGED <<d, order, seq, other, merge, cls, it2>>

\* next(it): ret keeps what the callable returned (arg) and whether the
\* callable or the comparison raised (hasdef).
CallableNext ==
    /\ it.type = "callable" /\ it.steps < MaxSteps
    /\ \E res \in CallResults, eqfault \in BOOLEAN :
          LET o == PyCallableIterator_next(it, res, eqfault)
          IN  /\ it' = [o.it EXCEPT !.calls = @ + o.n, !.steps = @ + 1,
                                    !.errors = IF o.tag = "OtherError" THEN @ + 1 ELSE @]
              /\ ret' = IterResult("next", IF o.n = 1 /\ ~res.raises THEN res.value
                                            ELSE NoneVal,
                                    o.n = 1 /\ (res.raises \/ eqfault), o)
    /\ UNCHANGED <<d, order, seq, other, merge, cls, it2>>

NextCallable ==
    \/ NewCallableIter
    \/ CallableNext

\* One callable-sentinel iterator and the next() calls made on it.
SpecCallable == Init /\ [][NextCallable]_vars

(* -------- one callable-sentinel iterator called from several ---------- *)
(* -------- threads and from its own callable                  ---------- *)
\* Top-level next() calls made on the shared iterator.
SharedMaxCalls == 4
\* Calls of next() one thread has in progress: 2 is a call made by the
\* callable of the call below it.
MaxDepth == 2

Threads == {1, 2}

\* The iterator with its PyRwLock: guard is the thread that holds the
\* upgradable read guard (0: none), frames the next() calls each thread has
\* in progress, innermost last, each with its position: "wait" before
\* upgradable_read returns, "invoke" with the guard and the status read as
\* Active, "running" inside the callable.  begun, calls, late (the callable
\* was invoked while the status was Exhausted) and aborted (a panic) are
\* history.
SharedIterator(sentinel) ==
    [type |-> "shared", sentinel |-> sentinel, status |-> "Active", guard |-> 0,
     frames |-> [t \in Threads |-> <<>>], begun |-> 0, calls |-> 0,
     late |-> FALSE, aborted |-> FALSE]

Top(I, t) == I.frames[t][Len(I.frames[t])]

Push(I, t, pc) == [I EXCEPT !.frames[t] = Append(@, pc)]

SetTop(I, t, pc) == [I EXCEPT !.frames[t][Len(I.frames[t])] = pc]

\* The call returns: its guard is dropped and its frame is left.
Leave(I, t) ==
    [I EXCEPT !.frames[t] = SubSeq(@, 1, Len(@) - 1), !.guard = 0]

\* zelf.status.upgradable_read(): one upgradable guard at a time, and the
\* lock does not know its owner.
upgradable_read(I, t) == [I EXCEPT !.guard = t]

\* iter(callable, sentinel), shared by the threads.
SharedIter ==
    /\ it.type = "none" /\ ret.op = "none"
    /\ it' = SharedIterator(1)
    /\ ret' = [NoResult EXCEPT !.op = "iter"]
    /\ UNCHANGED <<d, order, seq, other, merge, cls, it2>>

\* A thread calls next(it).
SharedCall(t) ==
    /\ it.type = "shared" /\ ~it.aborted
    /\ it.frames[t] = <<>> /\ it.begun < SharedMaxCalls
    /\ it' = [Push(it, t, "wait") EXCEPT !.begun = @ + 1]
    /\ ret' = [NoResult EXCEPT !.op = "call"]
    /\ UNCHANGED <<d, order, seq, other, merge, cls, it2>>

\* upgradable_read returns once no other guard is out; the status is
\* matched: Active goes on to the callable, Exhausted returns StopIteration.
SharedAcquire(t) ==
    /\ it.type = "shared" /\ ~it.aborted
    /\ it.frames[t] # <<>> /\ Top(it, t) = "wait"
    /\ it.guard = 0
    /\ IF it.status = "Active"
       THEN /\ it' = SetTop(upgradable_read(it, t), t, "invoke")
            /\ ret' = [NoResult EXCEPT !.op = "acquire"]
       ELSE /\ it' = Leave(upgradable_read(it, t), t)
            /\ ret' = [NoResult EXCEPT !.op = "next", !.tag = "StopIteration"]
    /\ UNCHANGED <<d, order, seq, other, merge, cls, it2>>

\* callable.invoke((), vm) begins, the guard still held.
SharedInvoke(t) ==
    /\ it.type = "shared" /\ ~it.aborted
    /\ it.frames[t] # <<>> /\ Top(it, t) = "invoke"
    /\ it' = [SetTop(it, t, "running") EXCEPT !.calls = @ + 1,
                                              !.late = @ \/ it.status = "Exhausted"]
    /\ ret' = [NoResult EXCEPT !.op = "invoke"]
    /\ UNCHANGED <<d, order, seq, other, merge, cls, it2>>

\* The callable calls next() on the iterator it belongs to.
SharedReenter(t) ==
    /\ it.type = "shared" /\ ~it.aborted
    /\ it.frames[t] # <<>> /\ Top(it, t) = "running"
    /\ Len(it.frames[t]) < MaxDepth
    /\ it' = Push(it, t, "wait")
    /\ ret' = [NoResult EXCEPT !.op = "reenter"]
    /\ UNCHANGED <<d, order, seq, other, merge, cls, it2>>

\* The callable returns or raises, the result is compared with the
\* sentinel, and next() returns: on equality the guard is upgraded and the
\* status set to Exhausted.
SharedFinish(t) ==
    /\ it.type = "shared" /\ ~it.aborted
    /\ it.frames[t] # <<>> /\ Top(it, t) = "running"
    /\ \E res \in CallResults, eqfault \in BOOLEAN :
          IF res.raises \/ eqfault
          THEN /\ it' = Leave(it, t)
               /\ ret' = [NoResult EXCEPT !.op = "next", !.tag = "OtherError"]
          ELSE IF bool_eq(res.value, it.sentinel)
               THEN /\ it' = Leave([it EXCEPT !.status = "Exhausted"], t)
                    /\ ret' = [NoResult EXCEPT !.op = "next", !.tag = "StopIteration"]
               ELSE /\ it' = Leave(it, t)
                    /\ ret' = [NoResult EXCEPT !.op = "next", !.tag = "Return",
                                                !.val = res.value]
    /\ UNCHANGED <<d, order, seq, other, merge, cls, it2>>

\* A lock that detects that it is taken again by the thread that holds it
\* panics instead of waiting.
SharedPanic(t) ==
    /\ it.type = "shared" /\ ~it.aborted
    /\ it.frames[t] # <<>> /\ Top(it, t) = "wait"
    /\ it.guard = t
    /\ it' = [it EXCEPT !.aborted = TRUE]
    /\ ret' = [NoResult EXCEPT !.op = "panic"]
    /\ UNCHANGED <<d, order, seq, other, merge, cls, it2>>

\* The steps that take a call in progress towards its return.
SharedProgress ==
    \E t \in Threads :
        SharedAcquire(t) \/ SharedInvoke(t) \/ SharedFinish(t)

NextShared ==
    \/ SharedIter
    \/ \E t \in Threads : SharedCall(t)
    \/ \E t \in Threads : SharedAcquire(t)
    \/ \E t \in Threads : SharedInvoke(t)
    \/ \E t \in Threads : SharedReenter(t)
    \/ \E t \in Threads : SharedFinish(t)
    \/ \E t \in Threads : SharedPanic(t)

\* Threads, and the callable itself, calling next() on one iterator.
SpecShared == Init /\ [][NextShared]_vars

(* ------------------------ map iterator (map.rs) ----------------------- *)
\* Source iterators of one map object.
MaxSources == 2
\* Elements one source holds when the map object is created.
MaxLeft == 2

\* A source iterator is the sequence of the elements it has yet to yield;
\* once empty it reports StopIteration on every call.
SourceContents == SeqsUpTo(Values, MaxLeft)

\* What the mapper does when called: it returns val, raises StopIteration
\* or raises another error.
MapperResults ==
    { [tag |-> "Return", val |-> v] : v \in Values }
        \cup { [tag |-> "StopIteration", val |-> NoneVal],
               [tag |-> "OtherError", val |-> NoneVal] }

\* Constructor for PyMap: the mapper and the iterators as given. len0, the
\* lengths at creation, yielded, the elements the map has yielded, and
\* clean, whether no source and no mapper call has raised so far, are
\* history.
PyMap_new(sources) ==
    [type |-> "map", sources |-> sources,
     len0 |-> [j \in 1..Len(sources) |-> Len(sources[j])],
     yielded |-> 0, clean |-> TRUE]

\* iterator.next(vm) of source j; the source numbered fault raises.
PyIter_next(src, raises) ==
    IF raises THEN [tag |-> "OtherError", val |-> NoneVal, src |-> src]
    ELSE IF src = <<>> THEN [tag |-> "StopIteration", val |-> NoneVal, src |-> src]
    ELSE [tag |-> "Return", val |-> Head(src), src |-> Tail(src)]

\* Mutant: every source is advanced before the step looks at the results.
RECURSIVE Mut_PyMap_fetch_all(_, _, _, _)
Mut_PyMap_fetch_all(sources, j, fault, next_objs) ==
    IF j > Len(sources)
    THEN [sources |-> sources, tag |-> "Return", next_objs |-> next_objs,
          asked |-> Len(sources)]
    ELSE LET r == PyIter_next(sources[j], j = fault)
             rest == Mut_PyMap_fetch_all([sources EXCEPT ![j] = r.src], j + 1, fault,
                                         Append(next_objs, r.val))
         IN  IF r.tag = "Return" THEN rest
             ELSE [rest EXCEPT !.tag = r.tag, !.next_objs = next_objs]

\* The for loop of next: iterator.next(vm)? leaves with the error of a
\* source, raise_if_stop! leaves with StopIteration, otherwise the item is
\* pushed. asked is the number of sources whose next was called.
RECURSIVE PyMap_fetch(_, _, _, _)
PyMap_fetch(sources, j, fault, next_objs) ==
    IF j > Len(sources)
    THEN [sources |-> sources, tag |-> "Return", next_objs |-> next_objs,
          asked |-> Len(sources)]
    ELSE LET r == PyIter_next(sources[j], j = fault)
         IN  IF r.tag = "Return"
             THEN PyMap_fetch([sources EXCEPT ![j] = r.src], j + 1, fault,
                              Append(next_objs, r.val))
             ELSE [sources |-> sources, tag |-> r.tag, next_objs |-> next_objs,
                   asked |-> j]

\* Mutant: a StopIteration raised by the mapper is returned as an error.
Mut_from_pyresult_strict(res) ==
    [tag |-> IF res.tag = "Return" THEN "Return" ELSE "OtherError", val |-> res.val]

\* PyIterReturn::from_pyresult: Ok(v) is Return(v), a StopIteration error
\* is StopIteration, any other error stays an error.
from_pyresult(res) == [tag |-> res.tag, val |-> res.val]

\* IterNext for PyMap: fetch from every source, then call the mapper once
\* with the fetched items; n counts the calls of the mapper.
PyMap_next(M, fault, mres) ==
    LET f == PyMap_fetch(M.sources, 1, fault, <<>>)
        o == from_pyresult(mres)
    IN  IF f.tag = "Return"
        THEN [it |-> [M EXCEPT !.sources = f.sources], tag |-> o.tag, val |-> o.val,
              n |-> 1, args |-> f.next_objs, asked |-> f.asked]
        ELSE [it |-> [M EXCEPT !.sources = f.sources], tag |-> f.tag, val |-> NoneVal,
              n |-> 0, args |-> <<>>, asked |-> f.asked]

\* What length_hint(0) of one source gives: a number, or -1 for an error.
HintResults == {-1, 1, 2}

\* Mutant: the smallest hint is kept.
RECURSIVE Mut_PyMap_length_hint_min(_, _, _)
Mut_PyMap_length_hint_min(hints, j, prev) ==
    IF j > Len(hints) THEN [tag |-> "Ok", val |-> prev, asked |-> Len(hints)]
    ELSE IF hints[j] < 0 THEN [tag |-> "OtherError", val |-> NoneVal, asked |-> j]
    ELSE Mut_PyMap_length_hint_min(hints, j + 1,
                                   IF j = 1 \/ hints[j] < prev THEN hints[j] ELSE prev)

\* PyMap::__length_hint__: try_fold from 0 with max, leaving at the first
\* source whose length_hint fails.
RECURSIVE PyMap_length_hint(_, _, _)
PyMap_length_hint(hints, j, prev) ==
    IF j > Len(hints) THEN [tag |-> "Ok", val |-> prev, asked |-> Len(hints)]
    ELSE IF hints[j] < 0 THEN [tag |-> "OtherError", val |-> NoneVal, asked |-> j]
    ELSE PyMap_length_hint(hints, j + 1, IF hints[j] > prev THEN hints[j] ELSE prev)

\* map(mapper, *iterables)
NewMap ==
    /\ it.type = "none"
    /\ \E sources \in SeqsUpTo(SourceContents, MaxSources) : it' = PyMap_new(sources)
    /\ ret' = [NoResult EXCEPT !.op = "map"]
    /\ UNCHANGED <<d, order, seq, other, merge, cls, it2>>

\* next(m), followed until the map has yielded more than any source held:
\* ret keeps the source that raised (fault, 0 for none), what the
\* mapper does when called (mres), the items it was called with (args), the
\* number of its calls (n) and of the sources asked (asked).
MapNext ==
    /\ it.type = "map" /\ it.yielded <= MaxLeft
    /\ \E fault \in 0..Len(it.sources), mres \in MapperResults :
          LET o == PyMap_next(it, fault, mres)
          IN  /\ it' = [o.it EXCEPT !.yielded = IF o.tag = "Return" THEN @ + 1 ELSE @,
                                    !.clean = @ /\ o.tag # "OtherError"
                                                  /\ (o.n = 1 => o.tag = "Return")]
              /\ ret' = [op |-> "map_next", tag |-> o.tag, val |-> o.val, n |-> o.n,
                         args |-> o.args, asked |-> o.asked,
                         fault |-> IF fault > o.asked THEN 0 ELSE fault,
                         mres |-> IF o.n = 1 THEN mres ELSE [tag |-> "none", val |-> NoneVal]]
    /\ UNCHANGED <<d, order, seq, other, merge, cls, it2>>

\* m.__length_hint__(), between two other calls: hints are the answers of
\* the sources.
MapLengthHint ==
    /\ it.type = "map" /\ ret.op # "map_hint"
    /\ \E hints \in [1..Len(it.sources) -> HintResults] :
          LET o == PyMap_length_hint(hints, 1, 0)
          IN  ret' = [op |-> "map_hint", tag |-> o.tag, val |-> o.val,
                      hints |-> [j \in 1..o.asked |-> hints[j]]]
    /\ UNCHANGED <<d, order, it, seq, other, merge, cls, it2>>

NextMap ==
    \/ NewMap
    \/ MapNext
    \/ MapLengthHint

\* One map object, its next() calls and its length hints.
SpecMap == Init /\ [][NextMap]_vars

(* ------------------------ code object (code.rs) ----------------------- *)
\* Overrides one replace call carries.
MaxOverrides == 3
\* A string object of the given text, interned or not, and an object that is
\* not a string.
StrObj(text, interned) == [kind |-> "str", text |-> text, interned |-> interned]

IntObj == [kind |-> "int", text |-> "1", interned |-> FALSE]

\* Option<T>
None == [some |-> FALSE, v |-> 0]

Some(v) == [some |-> TRUE, v |-> v]

\* OneIndexed::new: no value for 0.
OneIndexed_new(n) == IF n = 0 THEN None ELSE Some(n)

\* The bits of the flags CodeFlags defines (NEW_LOCALS 0x01 up to
\* IS_OPTIMIZED 0x20).
CodeFlags_all == 63

\* Bitwise and of two numbers of w bits.
RECURSIVE BitAnd(_, _, _)
BitAnd(a, b, w) ==
    IF w = 0 THEN 0
    ELSE (a % 2) * (b % 2) + 2 * BitAnd(a \div 2, b \div 2, w - 1)

\* CodeFlags::from_bits_truncate on a u16: the undefined bits are dropped.
from_bits_truncate(bits) == BitAnd(bits % 65536, CodeFlags_all, 16)

\* as_interned_str: the interned string an object is, if it is one.
as_interned_str(o) == IF o.kind = "str" /\ o.interned THEN Some(o) ELSE None

\* The code objects the compiler hands over: CodeObject<Literal> wrapped in
\* PyCode, with the identity id of the wrapping object.
CompiledCode(v, id) ==
    [id |-> id,
     flags |-> IF v = 1 THEN 1 ELSE 34,
     posonlyarg_count |-> v - 1,
     arg_count |-> v,
     kwonlyarg_count |-> 2 - v,
     source_path |-> StrObj(IF v = 1 THEN "a.py" ELSE "b.py", TRUE),
     first_line_number |-> IF v = 1 THEN None ELSE Some(7),
     obj_name |-> StrObj(IF v = 1 THEN "f" ELSE "g", TRUE),
     qualname |-> StrObj(IF v = 1 THEN "C.f" ELSE "g", TRUE),
     max_stackdepth |-> v + 1,
     instructions |-> IF v = 1 THEN <<100, 83>> ELSE <<83>>,
     locations |-> IF v = 1 THEN <<1, 1>> ELSE <<7>>,
     constants |-> IF v = 1 THEN <<>> ELSE <<IntObj>>,
     names |-> IF v = 1 THEN <<StrObj("print", TRUE)>> ELSE <<>>,
     varnames |-> IF v = 1 THEN <<StrObj("a", TRUE)>> ELSE <<StrObj("a", TRUE), StrObj("b", TRUE)>>,
     cellvars |-> IF v = 1 THEN <<>> ELSE <<StrObj("a", TRUE)>>,
     freevars |-> IF v = 1 THEN <<StrObj("y", TRUE)>> ELSE <<>>,
     cell2arg |-> IF v = 1 THEN None ELSE Some(<<0>>)]

\* The read accessors of PyCode.
co_posonlyargcount(c) == c.posonlyarg_count

co_argcount(c) == c.arg_count

co_kwonlyargcount(c) == c.kwonlyarg_count

co_filename(c) == c.source_path

co_firstlineno(c) == IF c.first_line_number.some THEN c.first_line_number.v ELSE 0

co_consts(c) == c.constants

co_name(c) == c.obj_name

co_names(c) == c.names

co_flags(c) == c.flags

co_varnames(c) == c.varnames

\* ReplaceArgs: ten named optional arguments. The arguments of a call are a
\* function from the names that are OptionalArg::Present to their values;
\* the other names are OptionalArg::Missing.
ReplaceFields ==
    {"co_posonlyargcount", "co_argcount", "co_kwonlyargcount", "co_filename",
     "co_firstlineno", "co_consts", "co_name", "co_names", "co_flags", "co_varnames"}

\* The values of the declared type tried for each argument.
Candidates(f) ==
    CASE f \in {"co_posonlyargcount", "co_argcount", "co_kwonlyargcount"} -> <<0, 2>>
      [] f = "co_filename" -> <<StrObj("c.py", TRUE), StrObj("c.py", FALSE)>>
      [] f = "co_firstlineno" -> <<0, 9>>
      [] f = "co_consts" -> <<(<<>>), <<IntObj, IntObj>>>>
      [] f = "co_name" -> <<StrObj("x", TRUE), StrObj("x", FALSE)>>
      [] f = "co_names" -> <<(<<>>), <<StrObj("n", TRUE)>>, <<IntObj>>>>
      [] f = "co_flags" -> <<0, 32, 32769>>
      [] f = "co_varnames" -> <<(<<StrObj("v", TRUE)>>), <<StrObj("v", FALSE)>>>>

ReplaceArgsSet ==
    UNION { { [f \in S |-> Candidates(f)[c[f]]] :
                c \in { x \in [S -> 1..3] : \A f \in S : x[f] <= Len(Candidates(f)) } } :
            S \in { T \in SUBSET ReplaceFields : Cardinality(T) <= MaxOverrides } }

\* match args.field { Present(x) => x, Missing => the receiver's }
Chosen(args, f, own) == IF f \in DOMAIN args THEN args[f] ELSE own

AllInterned(objs) == \A j \in 1..Len(objs) : as_interned_str(objs[j]).some

\* Mutant: the copy takes the name given and has its stack depth reset.
Mut_PyCode_replace_stackdepth(c, args, id) ==
    [tag |-> "Ok",
     obj |-> [c EXCEPT !.id = id, !.max_stackdepth = 0,
                       !.obj_name = Chosen(args, "co_name", c.obj_name)]]

\* PyCode::replace: every Option::unwrap of as_interned_str panics on None.
PyCode_replace(c, args, id) ==
    LET source_path == Chosen(args, "co_filename", c.source_path)
        obj_name == Chosen(args, "co_name", c.obj_name)
        names == Chosen(args, "co_names", c.names)
        varnames == Chosen(args, "co_varnames", c.varnames)
    IN  IF /\ as_interned_str(source_path).some /\ as_interned_str(obj_name).some
           /\ AllInterned(names) /\ AllInterned(varnames)
        THEN [tag |-> "Ok",
              obj |-> [id |-> id,
                       flags |-> from_bits_truncate(Chosen(args, "co_flags", c.flags)),
                       posonlyarg_count |-> Chosen(args, "co_posonlyargcount", c.posonlyarg_count),
                       arg_count |-> Chosen(args, "co_argcount", c.arg_count),
                       kwonlyarg_count |-> Chosen(args, "co_kwonlyargcount", c.kwonlyarg_count),
                       source_path |-> as_interned_str(source_path).v,
                       first_line_number |->
                           IF "co_firstlineno" \in DOMAIN args
                           THEN OneIndexed_new(args["co_firstlineno"])
                           ELSE c.first_line_number,
                       obj_name |-> as_interned_str(obj_name).v,
                       qualname |-> c.qualname,
                       max_stackdepth |-> c.max_stackdepth,
                       instructions |-> c.instructions,
                       locations |-> c.locations,
                       constants |-> Chosen(args, "co_consts", c.constants),
                       names |-> [j \in 1..Len(names) |-> as_interned_str(names[j]).v],
                       varnames |-> [j \in 1..Len(varnames) |-> as_interned_str(varnames[j]).v],
                       cellvars |-> c.cellvars,
                       freevars |-> c.freevars,
                       cell2arg |-> c.cell2arg]]
        ELSE [tag |-> "Panic", obj |-> None]

\* The digits of n to the base 16, without prefix.
RECURSIVE HexDigits(_)
HexDigits(n) ==
    LET digit == <<"0", "1", "2", "3", "4", "5", "6", "7", "8", "9",
                   "a", "b", "c", "d", "e", "f">>[(n % 16) + 1]
    IN  IF n < 16 THEN <<digit>> ELSE Append(HexDigits(n \div 16), digit)

\* Representable for PyCode::repr_str, as the pieces of the string:
\* format!("<code object {} at {:#x} file {:?}, line {}>", ...), {:?} of a
\* str being the text between double quotes.
repr_str(c) ==
    <<"<code object ", c.obj_name.text, " at ", "0x">> \o HexDigits(c.id)
        \o <<" file ", "\"", c.source_path.text, "\"", ", line ",
             IF c.first_line_number.some THEN ToString(c.first_line_number.v)
             ELSE ToString(-1), ">">>

\* The classes and argument lists code(...) is tried with.
NewCalls == [cls : {"code", "subclass"}, nargs : 0..2]

\* Mutant: a subclass may be constructed.
Mut_PyCode_slot_new_subclass(call) ==
    IF call.cls = "code"
    THEN [tag |-> "TypeError", msg |-> "Cannot directly create code object", created |-> 0]
    ELSE [tag |-> "Ok", msg |-> "", created |-> 1]

\* PyCode::slot_new
PyCode_slot_new(call) ==
    [tag |-> "TypeError", msg |-> "Cannot directly create code object", created |-> 0]

\* The compiler hands over a code object: the receiver of this behaviour.
NewCode ==
    /\ it.type = "none"
    /\ \E v \in 1..2 : it' = [type |-> "code", obj |-> CompiledCode(v, 1), objs |-> 1]
    /\ ret' = [NoResult EXCEPT !.op = "compile"]
    /\ UNCHANGED <<d, order, seq, other, merge, cls, it2>>

\* co.replace(**args), once in a behaviour; a panic ends the process.
Replace ==
    /\ it.type = "code" /\ it.objs = 1 /\ ret.op \in {"compile", "new"}
    /\ \E args \in ReplaceArgsSet :
          LET o == PyCode_replace(it.obj, args, it.objs + 1)
          IN  /\ it' = IF o.tag = "Ok" THEN [it EXCEPT !.objs = @ + 1]
                       ELSE [it EXCEPT !.type = "aborted"]
              /\ ret' = [op |-> "replace", tag |-> o.tag, obj |-> o.obj, args |-> args]
    /\ UNCHANGED <<d, order, seq, other, merge, cls, it2>>

\* repr(co) of the receiver or of the result of the last replace.
Repr ==
    /\ it.type = "code"
    /\ \E c \in {it.obj} \cup (IF ret.op = "replace" THEN {ret.obj} ELSE {}) :
          ret' = [op |-> "repr", tag |-> "Ok", obj |-> c, text |-> repr_str(c),
                  again |-> repr_str(c)]
    /\ UNCHANGED <<d, order, it, seq, other, merge, cls, it2>>

\* code(...) from the language surface.
SlotNew ==
    /\ it.type = "code"
    /\ \E call \in NewCalls :
          LET o == PyCode_slot_new(call)
          IN  /\ it' = [it EXCEPT !.objs = @ + o.created]
              /\ ret' = [op |-> "new", tag |-> o.tag, msg |-> o.msg, call |-> call]
    /\ UNCHANGED <<d, order, seq, other, merge, cls, it2>>

NextCode ==
    \/ NewCode
    \/ Replace
    \/ Repr
    \/ SlotNew

\* One compiled code object and the calls made on it.
SpecCode == Init /\ [][NextCode]_vars

(* ------------------- set operations of views, fromkeys ---------------- *)
\* Slots of each of the two dictionaries whose views are combined.
ViewMaxEntries == 2

\* The views that have the set operations: impl ViewSetOps for PyDictKeys
\* and for PyDictItems.
SetViewKinds == {"keys", "items"}

\* The element a view iterator of the kind yields, as a member of a set.
Element(kind, rkey, val) == IF kind = "keys" THEN rkey ELSE <<rkey, val>>

\* PySetInner::from_iter over Self::iter(zelf): the elements a new forward
\* iterator yields until it stops.
RECURSIVE from_iter(_, _)
from_iter(I, D) ==
    LET o == DictIter_next(I, D)
    IN  IF o.tag = "Return"
        THEN {Element(I.kind, o.rkey, o.val)} \cup from_iter(o.it, D)
        ELSE {}

\* ViewSetOps::to_set
to_set(D, kind) == from_iter(DictIter_new(D, kind), D)

\* The methods of PySetInner the operators hand their work to.
PySetInner_op(name, A, B) ==
    CASE name = "intersection" -> A \cap B
      [] name = "union" -> A \cup B
      [] name = "difference" -> A \ B
      [] name = "symmetric_difference" -> (A \ B) \cup (B \ A)
      [] name = "isdisjoint" -> A \cap B = {}

SetOperators == {"__and__", "__or__", "__sub__", "__xor__", "__rsub__", "isdisjoint"}

\* Mutant: every operator takes the view's elements first, __rsub__ too.
Mut_ViewSetOps_rsub_swapped(op, D, kind, O) ==
    LET zelf == to_set(D, kind)
        iterable == to_set(O, kind)
    IN  CASE op = "__and__" -> PySetInner_op("intersection", zelf, iterable)
          [] op = "__or__" -> PySetInner_op("union", zelf, iterable)
          [] op = "__sub__" -> PySetInner_op("difference", zelf, iterable)
          [] op = "__xor__" -> PySetInner_op("symmetric_difference", zelf, iterable)
          [] op = "__rsub__" -> PySetInner_op("difference", zelf, iterable)
          [] op = "isdisjoint" -> PySetInner_op("isdisjoint", zelf, iterable)

\* ViewSetOps::__and__, __or__, __sub__, __xor__, __rsub__ and isdisjoint
\* of the view of D with the view of the same kind of O as the iterable.
ViewSetOps_call(op, D, kind, O) ==
    LET zelf == to_set(D, kind)
        iterable == to_set(O, kind)
    IN  CASE op = "__and__" -> PySetInner_op("intersection", zelf, iterable)
          [] op = "__or__" -> PySetInner_op("union", zelf, iterable)
          [] op = "__sub__" -> PySetInner_op("difference", zelf, iterable)
          [] op = "__xor__" -> PySetInner_op("symmetric_difference", zelf, iterable)
          [] op = "__rsub__" -> PySetInner_op("difference", iterable, zelf)
          [] op = "isdisjoint" -> PySetInner_op("isdisjoint", zelf, iterable)

ViewCalls ==
    { Call("setitem", k, v, TRUE, <<>>) : k \in Keys, v \in Values }
        \cup { Call("delitem", k, NoneVal, FALSE, <<>>) : k \in Keys }

\* The two dictionaries are filled and entries are deleted, before the one
\* view operation of the behaviour.
ViewLeft ==
    /\ ret.op # "viewop"
    /\ \E inp \in ViewCalls :
          LET o == ApplyCall(d, inp)
          IN  /\ Len(o.d.entries) <= ViewMaxEntries
              /\ d' = o.d
              /\ order' = OrdApply(order, inp)
    /\ ret' = [NoResult EXCEPT !.op = "left"]
    /\ UNCHANGED <<it, seq, other, merge, cls, it2>>

ViewRight ==
    /\ ret.op # "viewop"
    /\ \E inp \in ViewCalls :
          LET o == ApplyCall(other, inp)
          IN  /\ Len(o.d.entries) <= ViewMaxEntries
              /\ other' = o.d
    /\ ret' = [NoResult EXCEPT !.op = "right"]
    /\ UNCHANGED <<d, order, it, seq, merge, cls, it2>>

\* d.keys() & other.keys(), d.items() - other.items(), ...
ViewOp ==
    /\ ret.op # "viewop"
    /\ \E op \in SetOperators, kind \in SetViewKinds :
          ret' = [op |-> "viewop", tag |-> "Ok", arg |-> op, kind |-> kind,
                  val |-> ViewSetOps_call(op, d, kind, other)]
    /\ UNCHANGED <<d, order, it, seq, other, merge, cls, it2>>

NextView ==
    \/ ViewLeft
    \/ ViewRight
    \/ ViewOp

\* Two dictionaries and the set operations of their key and item views.
SpecView == Init /\ [][NextView]_vars

(* ------------------------------ fromkeys ------------------------------ *)
\* Elements of the iterable handed to fromkeys.
MaxFromKeys == 3

\* Mutant: a key that comes again is moved to the end.
RECURSIVE Mut_fromkeys_loop_move(_, _, _)
Mut_fromkeys_loop_move(D, keys, value) ==
    IF keys = <<>> THEN D
    ELSE Mut_fromkeys_loop_move(
             dict_insert(IF dict_contains(D, Head(keys)) THEN dict_delete(D, Head(keys)).d
                         ELSE D, Head(keys), value),
             Tail(keys), value)

\* for key in iterable.iter(vm)? { pydict.__setitem__(key?, value.clone(), vm)? }
RECURSIVE fromkeys_loop(_, _, _)
fromkeys_loop(D, keys, value) ==
    IF keys = <<>> THEN D
    ELSE fromkeys_loop(PyDict_setitem(D, Head(keys), value).d, Tail(keys), value)

\* PyDict::fromkeys on the class dict itself: value.unwrap_or_none, a new
\* empty dictionary, one __setitem__ for every element of the iterable.
PyDict_fromkeys(keys, hasValue, value) ==
    Outcome(fromkeys_loop(EmptyDict, keys, IF hasValue THEN value ELSE NoneVal),
            "Ok", NoneVal)

\* dict.fromkeys(iterable) and dict.fromkeys(iterable, value): d becomes the
\* dictionary returned.
FromKeys ==
    /\ ret.op = "none"
    /\ \E keys \in SeqsUpTo(Keys, MaxFromKeys), hasValue \in BOOLEAN, value \in Values :
          /\ hasValue \/ value = 1
          /\ LET o == PyDict_fromkeys(keys, hasValue, value)
             IN  /\ d' = o.d
                 /\ order' = DictKeys(o.d)
                 /\ ret' = [op |-> "fromkeys", tag |-> o.tag, keys |-> keys,
                            hasdef |-> hasValue, arg |-> IF hasValue THEN value ELSE NoneVal]
    /\ UNCHANGED <<it, seq, other, merge, cls, it2>>

\* list(d.items()) and len(d) of the dictionary returned.
FromKeysItems ==
    /\ ret.op = "fromkeys"
    /\ ret' = [op |-> "items", tag |-> "Ok", keys |-> ret.keys, hasdef |-> ret.hasdef,
               arg |-> ret.arg, val |-> DictItems(d), n |-> PyDict_len(d)]
    /\ UNCHANGED <<d, order, it, seq, other, merge, cls, it2>>

NextFromKeys ==
    \/ FromKeys
    \/ FromKeysItems

\* One dict.fromkeys call and the items of its result.
SpecFromKeys == Init /\ [][NextFromKeys]_vars

(* ============================== claims ================================= *)
Front(s) == SubSeq(s, 1, Len(s) - 1)

Reverse(s) == [i \in 1..Len(s) |-> s[Len(s) + 1 - i]]

WithoutKey(items, k) == SelectSeq(items, LAMBDA p : p[1] # k)

Present(D) == { k \in Keys : dict_contains(D, k) }

\* C1: after any sequence of __setitem__, __delitem__, pop, popitem,
\* setdefault, update and clear, iterating the dictionary yields exactly the
\* keys now present, each once, in the order of their latest first insertion:
\* a deletion keeps the survivors' relative order and a key inserted again
\* after its deletion comes last.
C1_IterationOrder ==
    /\ DictKeys(d) = order
    /\ { DictKeys(d)[i] : i \in 1..Len(DictKeys(d)) } = Present(d)
    /\ \A i, j \in 1..Len(DictKeys(d)) : i # j => DictKeys(d)[i] # DictKeys(d)[j]

\* Insert 1, 2, 3; delete 2; insert 2 again: the order is 1, 3, 2.
C1_Witness ==
    /\ ret.op = "setitem" /\ ret.key = 2
    /\ Len(d.entries) = 4 /\ ~d.entries[2].live
    /\ DictKeys(d) = <<1, 3, 2>>

\* C4: setdefault on a present key returns the stored value without calling
\* the default producer and changes nothing; on an absent key it calls the
\* producer exactly once, appends the key with the produced value and returns
\* it. A second setdefault on the same key right after one that inserted it
\* calls no producer and returns the same value.
C4_SetDefault ==
    [][ret'.op = "setdefault" =>
          /\ ret'.tag = "Ok"
          /\ IF dict_contains(d, ret'.key)
             THEN /\ ret'.n = 0
                  /\ ret'.val = dict_get(d, ret'.key).value
                  /\ d' = d
             ELSE /\ ret'.n = 1
                  /\ ret'.val = ret'.arg
                  /\ DictItems(d') = Append(DictItems(d), <<ret'.key, ret'.arg>>)
          /\ (ret.op = "setdefault" /\ ret.n = 1 /\ ret.key = ret'.key)
                => (ret'.n = 0 /\ ret'.val = ret.val)]_vars

\* A setdefault that met a present key and returned its value, not the default.
C4_Witness ==
    /\ ret.op = "setdefault" /\ ret.n = 0 /\ ret.hasdef
    /\ ret.val # ret.arg
    /\ dict_get(d, ret.key).value = ret.val

\* C5: popitem on a non-empty dictionary removes and returns the pair that is
\* last in iteration order and keeps the order of the others; popping until
\* empty returns the pairs in reverse iteration order; on an empty dictionary
\* popitem fails with a key error and the dictionary stays empty.
RECURSIVE PopAll(_)
PopAll(D) ==
    LET o == PyDict_popitem(D)
    IN  IF o.tag = "Ok" THEN <<<<o.rkey, o.val>>>> \o PopAll(o.d) ELSE <<>>

C5_PopItem ==
    [][ret'.op = "popitem" =>
          /\ PopAll(d) = Reverse(DictItems(d))
          /\ IF DictItems(d) # <<>>
             THEN /\ ret'.tag = "Ok"
                  /\ <<ret'.rkey, ret'.val>> = DictItems(d)[Len(DictItems(d))]
                  /\ DictItems(d') = Front(DictItems(d))
             ELSE /\ ret'.tag = "KeyError"
                  /\ DictItems(d') = <<>>
                  /\ PyDict_len(d') = 0]_vars

\* popitem returned the last of three entries, one slot before it deleted.
C5_Witness ==
    /\ ret.op = "popitem" /\ ret.tag = "Ok"
    /\ Len(DictItems(d)) = 2
    /\ \E i \in 1..Len(d.entries) : ~d.entries[i].live

\* C6: in every reachable state len(D), the length of each view of D and the
\* number of elements a fresh forward iterator of any kind yields when run to
\* exhaustion on the unchanged dictionary are equal.
RECURSIVE DrainCount(_, _)
DrainCount(I, D) ==
    LET o == DictIter_next(I, D)
    IN  IF o.tag = "Return" THEN 1 + DrainCount(o.it, D) ELSE 0

C6_Lengths ==
    \A kind \in ViewKinds :
        /\ DictView_len(d) = PyDict_len(d)
        /\ DrainCount(DictIter_new(d, kind), d) = PyDict_len(d)
        /\ PyDict_len(d) = Len(DictItems(d))

\* Two live entries among four slots, after deletions.
C6_Witness ==
    /\ ret.op = "delitem" /\ ret.tag = "Ok"
    /\ Len(d.entries) = 4 /\ PyDict_len(d) = 2

\* C7: __setitem__ on a present key replaces the value (a following get
\* returns it) and keeps the length, the key order and the other values; on an
\* absent key the length grows by one and the key comes last.
C7_SetItem ==
    [][ret'.op = "setitem" =>
          /\ ret'.tag = "Ok"
          /\ PyDict_get(d', ret'.key, FALSE, NoneVal).val = ret'.arg
          /\ WithoutKey(DictItems(d'), ret'.key) = WithoutKey(DictItems(d), ret'.key)
          /\ IF dict_contains(d, ret'.key)
             THEN /\ PyDict_len(d') = PyDict_len(d)
                  /\ DictKeys(d') = DictKeys(d)
             ELSE /\ PyDict_len(d') = PyDict_len(d) + 1
                  /\ DictKeys(d') = Append(DictKeys(d), ret'.key)]_vars

\* The key just set is first of three, so it was overwritten in place.
C7_Witness ==
    /\ ret.op = "setitem"
    /\ Len(DictKeys(d)) = 3 /\ DictKeys(d)[1] = ret.key
    /\ dict_get(d, ret.key).value = ret.arg

\* C8: __delitem__ on an absent key fails with a key error and leaves
\* contents, order, length and size signature as they were, so that an
\* iterator created before it steps as if nothing had happened; on a present
\* key it removes exactly that entry, keeps the others and their order, and
\* changes the size signature.
C8_DelItem ==
    [][ret'.op = "delitem" =>
          IF dict_contains(d, ret'.key)
          THEN /\ ret'.tag = "Ok"
               /\ DictItems(d') = WithoutKey(DictItems(d), ret'.key)
               /\ PyDict_len(d') = PyDict_len(d) - 1
               /\ dict_has_changed_size(d', dict_size(d))
          ELSE /\ ret'.tag = "KeyError"
               /\ DictItems(d') = DictItems(d)
               /\ PyDict_len(d') = PyDict_len(d)
               /\ ~dict_has_changed_size(d', dict_size(d))
               /\ \A kind \in ViewKinds :
                     /\ DictIter_next(DictIter_new(d, kind), d').tag # "RuntimeError"
                     /\ DictIter_next(DictIter_new(d, kind), d')
                            = DictIter_next(DictIter_new(d, kind), d)
                     /\ DictRevIter_next(DictRevIter_new(d, kind), d')
                            = DictRevIter_next(DictRevIter_new(d, kind), d)]_vars

\* A failed delete on a dictionary that holds other keys.
C8_Witness ==
    /\ ret.op = "delitem" /\ ret.tag = "KeyError"
    /\ PyDict_len(d) = 2 /\ ~dict_contains(d, ret.key)

\* C9: pop on a present key removes the entry and returns its value; on an
\* absent key it returns the default when one is given, and otherwise fails
\* with a key error carrying the key; in both absent cases the dictionary is
\* unchanged.
C9_Pop ==
    [][ret'.op = "pop" =>
          IF dict_contains(d, ret'.key)
          THEN /\ ret'.tag = "Ok"
               /\ ret'.val = dict_get(d, ret'.key).value
               /\ DictItems(d') = WithoutKey(DictItems(d), ret'.key)
          ELSE /\ d' = d
               /\ IF ret'.hasdef
                  THEN ret'.tag = "Ok" /\ ret'.val = ret'.arg
                  ELSE ret'.tag = "KeyError" /\ ret'.rkey = ret'.key]_vars

\* pop without a default on a key that is absent from a non-empty dictionary.
C9_Witness ==
    /\ ret.op = "pop" /\ ret.tag = "KeyError" /\ ret.rkey = ret.key
    /\ PyDict_len(d) >= 1 /\ ~dict_contains(d, ret.key)

\* C2: a dictionary iterator (forward or reverse; keys, values or items) that
\* is Active while the dictionary's size signature differs from the one it
\* captured answers the next call of next() with the runtime error, yields
\* nothing and becomes Exhausted; from then on every next() reports plain
\* exhaustion.
C2_MutationDetected ==
    [][it.type \in DictTypes =>
          /\ (ret'.op = "next" /\ it.status = "Active"
                  /\ dict_has_changed_size(d, it.size))
                => /\ ret'.tag = "RuntimeError"
                   /\ ret'.rkey = 0 /\ ret'.val = NoneVal
                   /\ it'.status = "Exhausted"
          /\ (ret'.op = "next" /\ ret'.tag = "RuntimeError")
                => (it.status = "Active" /\ dict_has_changed_size(d, it.size))
          /\ (ret'.op = "next" /\ it.status = "Exhausted")
                => /\ ret'.tag = "StopIteration"
                   /\ ret'.rkey = 0 /\ ret'.val = NoneVal
          /\ it.status = "Exhausted" => it'.status = "Exhausted"]_vars

\* next() has just raised on a reverse iterator that had yielded an entry
\* before the dictionary shrank.
C2_Witness ==
    /\ it.type = "rev" /\ it.status = "Exhausted"
    /\ ret.op = "next" /\ ret.tag = "RuntimeError"
    /\ it.position < it.size.entries_size - 1
    /\ PyDict_len(d) < it.size.used

\* C3: Exhausted is absorbing for every position iterator (the dictionary
\* forward and reverse iterators, the sequence iterator, a rev_next
\* iterator): no next(), __setstate__, length_hint or change of the
\* container makes the status Active again or makes next() yield an element.
C3_ExhaustedAbsorbing ==
    [][(it.type # "none" /\ it.status = "Exhausted") =>
          /\ it'.status = "Exhausted"
          /\ it'.type = it.type
          /\ ret'.op = "next" => ret'.tag = "StopIteration"
          /\ ret'.op = "length_hint" => ret'.val = 0]_vars

\* An exhausted sequence iterator whose sequence now holds an element at its
\* cursor, asked again.
C3_Witness ==
    /\ it.type = "seq" /\ it.status = "Exhausted"
    /\ it.position < seq
    /\ ret.op = "next" /\ ret.tag = "StopIteration"

\* The value key k has after the pairs of s were inserted in order (the last
\* pair of s for k decides).
RECURSIVE LastCopied(_, _)
LastCopied(s, k) ==
    IF s = <<>> THEN NoneVal
    ELSE IF s[Len(s)][1] = k THEN s[Len(s)][2] ELSE LastCopied(Front(s), k)

Holds(D, pairs) ==
    \A i \in 1..Len(pairs) :
        dict_get(D, pairs[i][1]) = [found |-> TRUE, value |-> LastCopied(pairs, pairs[i][1])]

MergeReturns == merge.pc = "loop" /\ merge'.pc = "done" /\ ret'.tag # "OtherError"

\* C10: when the copy loop of a merge from an exact dictionary has ended, a
\* source size signature that differs from the captured one gives the runtime
\* error 'dict mutated during update' and an equal one gives success; either
\* way the target keeps every pair the loop copied (nothing is rolled back),
\* and on success the target holds every pair of the source provided the
\* source was not modified during the copy.
C10_MergeDict ==
    [][MergeReturns =>
          /\ ret'.tag = IF dict_has_changed_size(other, merge.size)
                        THEN "RuntimeError" ELSE "Ok"
          /\ d' = d
          /\ Holds(d', merge.copied)
          /\ (ret'.tag = "Ok" /\ ~merge.touched) => Holds(d', DictItems(other))]_vars

\* The merge has failed after it had copied a pair that the source has lost
\* since: the pair is still in the target.
C10_Witness ==
    /\ merge.pc = "done"
    /\ ret.op = "merge_dict" /\ ret.tag = "RuntimeError"
    /\ merge.copied # <<>>
    /\ ~dict_contains(other, merge.copied[1][1])
    /\ dict_contains(d, merge.copied[1][1])

\* C10 as written: an unchanged size signature means success with every pair
\* of the source in the target.
C10_Original ==
    [][MergeReturns =>
          IF dict_has_changed_size(other, merge.size)
          THEN ret'.tag = "RuntimeError" /\ Holds(d', merge.copied)
          ELSE ret'.tag = "Ok" /\ Holds(d', DictItems(other))]_vars

\* The items of a dictionary with items items0 after pairs were put into it
\* one after the other: keys in order of first appearance, a key's value the
\* last one put.
Expect(items0, pairs) ==
    LET all == items0 \o pairs
        keys == OrdInsertAll(<<>>, all)
    IN  [i \in 1..Len(keys) |-> <<keys[i], LastCopied(all, keys[i])>>]

\* Index of the first element of elems that does not yield two values, 0 if
\* there is none.
FirstBad(elems) ==
    IF \E i \in 1..Len(elems) : elems[i].len # 2
    THEN CHOOSE i \in 1..Len(elems) :
            elems[i].len # 2 /\ \A j \in 1..(i - 1) : elems[j].len = 2
    ELSE 0

\* C11: merging from a plain iterable whose element at index i yields 0, 1
\* or 3 and more values fails with the value error, with exactly the pairs
\* before index i inserted and none from index i on.
C11_PairArity ==
    (ret.op = "update_from" /\ ret.src.kind = "pairs" /\ ret.kwargs = <<>>)
        => LET bad == FirstBad(ret.src.elems)
           IN  /\ (bad # 0 /\ ret.src.elems[bad].len \in {0, 1, 3})
                     => /\ ret.tag = "ValueError"
                        /\ DictItems(d) =
                              Expect(DictItems(ret.d0),
                                     SubSeq(Pairs(ret.src.elems), 1, bad - 1))
               /\ ret.tag = "ValueError"
                     => (bad # 0 /\ ret.src.elems[bad].len \in {0, 1, 3})

\* The second element yields three values: the first pair is in the
\* dictionary, the key of the second is not.
C11_Witness ==
    /\ ret.op = "update_from" /\ ret.src.kind = "pairs" /\ ret.tag = "ValueError"
    /\ Len(ret.src.elems) = 2
    /\ ret.src.elems[2].len = 3
    /\ ret.src.elems[1].key # ret.src.elems[2].key
    /\ dict_contains(d, ret.src.elems[1].key)
    /\ ~dict_contains(d, ret.src.elems[2].key)

\* C12: update(source, **kwargs) puts the pairs of the source, in its
\* iteration order, and then the keyword pairs, in keyword order: new keys
\* are appended in that order, present keys keep their place, the keyword
\* value wins; when the source fails no keyword pair is put.
C12_UpdateOrder ==
    (ret.op = "update_from")
        => /\ (FirstBad(ret.src.elems) = 0)
                 => /\ ret.tag = "Ok"
                    /\ DictItems(d) =
                          Expect(Expect(DictItems(ret.d0), Pairs(ret.src.elems)),
                                 ret.kwargs)
           /\ (FirstBad(ret.src.elems) # 0)
                 => /\ ret.tag # "Ok"
                    /\ DictItems(d) =
                          Expect(DictItems(ret.d0),
                                 SubSeq(Pairs(ret.src.elems), 1,
                                        FirstBad(ret.src.elems) - 1))

\* A source and a keyword give the same new key different values, after a
\* key the dictionary already had.
C12_Witness ==
    /\ ret.op = "update_from" /\ ret.tag = "Ok"
    /\ ret.src.kind = "dict"
    /\ Len(DictItems(ret.d0)) = 1 /\ Len(ret.src.elems) = 2 /\ Len(ret.kwargs) = 2
    /\ ret.src.elems[1].key = ret.kwargs[2][1]
    /\ ret.src.elems[1].value # ret.kwargs[2][2]
    /\ ret.src.elems[2].key = DictItems(ret.d0)[1][1]
    /\ Len(DictItems(d)) = 3

\* Equality as the written contract has it: the same length, and every key
\* of A in B with an identical or equal value.
EqualDicts(A, B) ==
    /\ PyDict_len(A) = PyDict_len(B)
    /\ \A i \in 1..Len(DictItems(A)) :
          LET k == DictItems(A)[i][1]
              v == DictItems(A)[i][2]
          IN  /\ dict_contains(B, k)
              /\ v = dict_get(B, k).value \/ bool_eq(v, dict_get(B, k).value)

\* C13: d == other is true exactly when the two have the same length and
\* every key of one is in the other with an identical or equal value; the
\* result does not depend on insertion order, is the same with the operands
\* exchanged, and != is its negation.
C13_Equality ==
    /\ PyDict_cmp(d, cls.d, other, cls.other, "Eq").val = EqualDicts(d, other)
    /\ PyDict_cmp(d, cls.d, other, cls.other, "Eq").val
          = PyDict_cmp(other, cls.other, d, cls.d, "Eq").val
    /\ PyDict_cmp(d, cls.d, other, cls.other, "Ne").val
          = ~PyDict_cmp(d, cls.d, other, cls.other, "Eq").val
    /\ (ret.op = "cmp" /\ ret.arg = "Eq") => ret.val = EqualDicts(d, other)
    /\ (ret.op = "cmp" /\ ret.arg = "Ne") => ret.val = ~EqualDicts(d, other)

\* C14: get never calls the __missing__ hook and gives the default (or None)
\* for an absent key; item access calls the hook only for an absent key and
\* returns its result, fails with the key error carrying the key when there
\* is no hook, and returns the stored value of a present key.
C14_MissingHook ==
    /\ ret.op = "get"
          => /\ ret.n = 0 /\ ret.tag = "Ok"
             /\ ret.val = IF dict_contains(d, ret.key) THEN dict_get(d, ret.key).value
                          ELSE IF ret.hasdef THEN ret.arg ELSE NoneVal
    /\ ret.op = "getitem"
          => IF dict_contains(d, ret.key)
             THEN ret.n = 0 /\ ret.tag = "Ok" /\ ret.val = dict_get(d, ret.key).value
             ELSE IF cls.d = "missing"
                  THEN ret.n = 1 /\ ret.tag = "Ok" /\ ret.val = MissingResult
                  ELSE ret.n = 0 /\ ret.tag = "KeyError" /\ ret.rkey = ret.key

\* The hook has answered for a key that was deleted, next to a key that is
\* present.
C14_Witness ==
    /\ ret.op = "getitem" /\ ret.n = 1 /\ ret.val = MissingResult
    /\ cls.d = "missing"
    /\ PyDict_len(d) = 1 /\ Len(d.entries) = 2

\* The elements, as <<rkey, val>>, that next() yields from iterator I over
\* the dictionary D until it stops or raises.
RECURSIVE Drain(_, _)
Drain(I, D) ==
    LET o == IF I.type = "fwd" THEN DictIter_next(I, D) ELSE DictRevIter_next(I, D)
    IN  IF o.tag = "Return" THEN <<<<o.rkey, o.val>>>> \o Drain(o.it, D) ELSE <<>>

\* C16: whatever inserts and deletes made the dictionary, a reverse iterator
\* run to exhaustion without a mutation in between yields exactly the
\* reverse of what a forward iterator yields: every surviving entry once,
\* the last inserted first.
C16_ReverseOfForward ==
    \A kind \in ViewKinds :
        Drain(DictRevIter_new(d, kind), d) = Reverse(Drain(DictIter_new(d, kind), d))

\* C17: the forward iterator's length_hint is the entry total captured at
\* creation minus the cursor while it is Active, never negative, 0 once it is
\* Exhausted, and no next() makes it larger.
C17_ForwardLengthHint ==
    [][it.type = "fwd" =>
          /\ DictIter_length_hint(it) =
                IF it.status = "Active"
                THEN IF it.size.entries_size >= it.position
                     THEN it.size.entries_size - it.position ELSE 0
                ELSE 0
          /\ DictIter_length_hint(it) >= 0
          /\ ret'.op = "length_hint" => ret'.val = DictIter_length_hint(it)
          /\ ret'.op = "next" => DictIter_length_hint(it') <= DictIter_length_hint(it)]_vars

\* length_hint was asked of an Active forward iterator that has yielded one
\* of two entries.
C17_Witness ==
    /\ it.type = "fwd" /\ it.status = "Active"
    /\ it.position = 1 /\ it.size.entries_size = 2
    /\ ret.op = "length_hint" /\ ret.val = 1

C19_SequenceIterator ==
    [][(it.type = "seq" /\ ret'.op = "next") =>
          IF it.status = "Active"
          THEN /\ ret'.n = 1
               /\ ret'.tag \in {"Return", "StopIteration", "OtherError"}
               /\ ret'.tag = "Return"
                     => /\ it.position < seq /\ ret'.val = it.position
                        /\ it' = [it EXCEPT !.position = @ + 1]
               /\ ret'.tag = "StopIteration" => it.position >= seq
               /\ ret'.tag # "Return" => it' = [it EXCEPT !.status = "Exhausted"]
          ELSE ret'.n = 0 /\ ret'.tag = "StopIteration" /\ it' = it]_vars

\* The source has failed with another error after one element was fetched,
\* while a further index was in range.
C19_Witness ==
    /\ it.type = "seq" /\ it.status = "Exhausted"
    /\ it.position = 1 /\ seq = 2
    /\ ret.op = "next" /\ ret.tag = "OtherError" /\ ret.n = 1

\* C15: iter(view) gives a new iterator at the first entry with the size
\* signature of that moment, whatever the cursor or status of an older
\* iterator; over the dictionary as it was at that moment its next() yields
\* the projection of every entry, one after the other in insertion order,
\* and then stops, never raising and never moving the older iterator; so
\* does an iterator created after a mutation made the older one fail.
C15_FreshIterator ==
    [][/\ ret'.op = "iter2"
          => /\ it2'.position = 0 /\ it2'.status = "Active"
             /\ it2'.size = dict_size(d)
             /\ it' = it
       /\ (ret'.op = "next2" /\ it2.clean /\ it2.status = "Active")
          => /\ IF it2.count < Len(DictItems(d))
                THEN /\ ret'.tag = "Return"
                     /\ ret'.rkey = ResultKey(it2.kind, DictItems(d)[it2.count + 1][1])
                     /\ ret'.val = ResultVal(it2.kind, DictItems(d)[it2.count + 1][2])
                     /\ it2'.status = "Active"
                ELSE ret'.tag = "StopIteration" /\ it2'.status = "Exhausted"
             /\ it' = it]_vars

\* An iterator created right after the older one had raised has yielded both
\* entries of the dictionary and stopped.
C15_Witness ==
    /\ it2.type = "fwd" /\ it2.late /\ it2.clean /\ it2.status = "Exhausted"
    /\ it2.count = 2 /\ PyDict_len(d) = 2
    /\ ret.op = "next2" /\ ret.tag = "StopIteration"
    /\ it.status = "Exhausted"

\* C20: while Active, a next() of the callable-sentinel iterator invokes
\* the callable exactly once; a result value-equal to the sentinel gives
\* StopIteration and makes the iterator Exhausted, any other result is
\* yielded. Once Exhausted the iterator stays Exhausted, the callable is
\* never invoked again and every next() gives StopIteration.
C20_CallableSentinel ==
    [][/\ (it.type = "callable" /\ it.status = "Active" /\ ret'.op = "next")
          => /\ ret'.n = 1 /\ it'.calls = it.calls + 1
             /\ ~ret'.hasdef
                => IF bool_eq(ret'.arg, it.sentinel)
                   THEN ret'.tag = "StopIteration" /\ it'.status = "Exhausted"
                   ELSE /\ ret'.tag = "Return" /\ ret'.val = ret'.arg
                        /\ it'.status = "Active"
       /\ (it.type = "callable" /\ it.status = "Exhausted")
          => /\ it'.status = "Exhausted" /\ it'.calls = it.calls
             /\ it'.sentinel = it.sentinel
             /\ ret'.op = "next" => ret'.tag = "StopIteration" /\ ret'.n = 0]_vars

\* The second invocation of the callable exhausted the iterator; the two
\* next() calls after it did not invoke the callable.
C20_Witness ==
    /\ it.type = "callable" /\ it.status = "Exhausted"
    /\ it.calls = 2 /\ it.steps = 4
    /\ ret.op = "next" /\ ret.tag = "StopIteration" /\ ret.n = 0

\* The smallest and the largest element of a non-empty sequence of numbers,
\* 0 for the empty sequence.
SeqMin(f) ==
    IF Len(f) = 0 THEN 0
    ELSE CHOOSE x \in { f[j] : j \in 1..Len(f) } : \A j \in 1..Len(f) : x <= f[j]

SeqMax(f) ==
    IF Len(f) = 0 THEN 0
    ELSE CHOOSE x \in { f[j] : j \in 1..Len(f) } : \A j \in 1..Len(f) : x >= f[j]

\* The first exhausted source, 0 when every source has an element.
FirstEmpty(sources) ==
    IF \E j \in 1..Len(sources) : sources[j] = <<>>
    THEN CHOOSE j \in 1..Len(sources) :
            sources[j] = <<>> /\ \A k \in 1..(j - 1) : sources[k] # <<>>
    ELSE 0

\* C21: a step of the map iterator asks its sources from left to right;
\* when source i is the first to be exhausted (and no source before it
\* raised) the step reports StopIteration, the sources before i have each
\* given one element, the sources after i are untouched and the mapper is
\* not called. With sources of a and b elements, a map whose mapper and
\* sources never raise has yielded min(a, b) elements when it stops.
C21_ShortCircuit ==
    [][(it.type = "map" /\ ret'.op = "map_next")
         => LET i == FirstEmpty(it.sources)
            IN  /\ \A j \in 1..Len(it.sources) :
                      IF j < ret'.asked \/ (j = ret'.asked /\ ret'.n = 1)
                      THEN it.sources[j] # <<>> /\ it'.sources[j] = Tail(it.sources[j])
                      ELSE it'.sources[j] = it.sources[j]
                /\ (i > 0 /\ ret'.fault = 0)
                      => /\ ret'.tag = "StopIteration" /\ ret'.asked = i /\ ret'.n = 0
                         /\ \A j \in (i + 1)..Len(it.sources) :
                               it'.sources[j] = it.sources[j]
                         /\ it.clean => it.yielded = SeqMin(it.len0)]_vars

\* Sources of one and two elements: the second step stopped at the first
\* source and left the second element of the other source in place.
C21_Witness ==
    /\ it.type = "map" /\ it.clean /\ it.len0 = <<1, 2>>
    /\ it.yielded = 1
    /\ it.sources = <<(<<>>), <<2>>>>
    /\ ret.op = "map_next" /\ ret.tag = "StopIteration" /\ ret.n = 0 /\ ret.asked = 1

\* C22: when every source gives a value, the mapper is called exactly once
\* with the values in source order and its outcome is the outcome of the
\* step: a return value is yielded, a StopIteration it raises is
\* StopIteration, another error is an error. When a source raises an error
\* the step returns an error, not StopIteration, and the mapper is not called.
C22_MapperOutcome ==
    [][(it.type = "map" /\ ret'.op = "map_next")
         => /\ (FirstEmpty(it.sources) = 0 /\ ret'.fault = 0)
                  => /\ ret'.n = 1
                     /\ ret'.args = [j \in 1..Len(it.sources) |-> Head(it.sources[j])]
                     /\ ret'.tag = ret'.mres.tag
                     /\ ret'.tag = "Return" => ret'.val = ret'.mres.val
            /\ ret'.fault > 0
                  => ret'.tag = "OtherError" /\ ret'.n = 0]_vars

\* The mapper raised StopIteration although both sources gave a value.
C22_Witness ==
    /\ it.type = "map" /\ Len(it.sources) = 2 /\ it.len0 = <<2, 2>>
    /\ Len(it.sources[1]) = 1 /\ Len(it.sources[2]) = 1
    /\ ret.op = "map_next" /\ ret.n = 1 /\ ret.asked = 2 /\ Len(ret.args) = 2
    /\ ret.mres.tag = "StopIteration" /\ ret.tag = "StopIteration"

\* C23: __length_hint__ of the map iterator is the largest of the hints of
\* its sources, 0 without sources; it advances no source; the error of a
\* source's hint is returned.
C23_LengthHintMax ==
    [][(it.type = "map" /\ ret'.op = "map_hint")
         => /\ it' = it
            /\ IF \E j \in 1..Len(ret'.hints) : ret'.hints[j] < 0
               THEN ret'.tag = "OtherError"
               ELSE /\ ret'.tag = "Ok" /\ Len(ret'.hints) = Len(it.sources)
                    /\ ret'.val = SeqMax(ret'.hints)]_vars

\* Hints 1 and 2 of two sources give 2.
C23_Witness ==
    /\ it.type = "map" /\ ret.op = "map_hint" /\ ret.tag = "Ok"
    /\ ret.hints = <<1, 2>> /\ ret.val = 2
    /\ it.yielded = 1

\* What the accessor named like the override f returns for the code object c.
Accessor(f, c) ==
    CASE f = "co_posonlyargcount" -> co_posonlyargcount(c)
      [] f = "co_argcount" -> co_argcount(c)
      [] f = "co_kwonlyargcount" -> co_kwonlyargcount(c)
      [] f = "co_filename" -> co_filename(c)
      [] f = "co_firstlineno" -> co_firstlineno(c)
      [] f = "co_consts" -> co_consts(c)
      [] f = "co_name" -> co_name(c)
      [] f = "co_names" -> co_names(c)
      [] f = "co_flags" -> co_flags(c)
      [] f = "co_varnames" -> co_varnames(c)

\* C24: a replace call that returns gives a new object and leaves the
\* receiver as it was; every field without an override, and always the
\* qualified name, stack depth, instructions, locations, cellvars, freevars
\* and cell-to-arg mapping, equal the receiver's. replace(co_name=x) differs
\* from the receiver only in the name, replace() in nothing but identity.
C24_ReplaceFrame ==
    [][(it.type = "code" /\ ret'.op = "replace" /\ ret'.tag = "Ok")
         => LET c == it.obj
                r == ret'.obj
                args == ret'.args
            IN  /\ r.id # c.id /\ it'.obj = c /\ it'.objs = it.objs + 1
                /\ \A f \in ReplaceFields \ DOMAIN args : Accessor(f, r) = Accessor(f, c)
                /\ "co_firstlineno" \notin DOMAIN args
                      => r.first_line_number = c.first_line_number
                /\ r.qualname = c.qualname /\ r.max_stackdepth = c.max_stackdepth
                /\ r.instructions = c.instructions /\ r.locations = c.locations
                /\ r.cellvars = c.cellvars /\ r.freevars = c.freevars
                /\ r.cell2arg = c.cell2arg
                /\ DOMAIN args = {"co_name"}
                      => /\ r.obj_name = args["co_name"]
                         /\ [r EXCEPT !.id = c.id, !.obj_name = c.obj_name] = c
                /\ DOMAIN args = {} => [r EXCEPT !.id = c.id] = c]_vars

\* replace(co_name="x") on the code object named f.
C24_Witness ==
    /\ it.type = "code" /\ ret.op = "replace" /\ ret.tag = "Ok"
    /\ DOMAIN ret.args = {"co_name"}
    /\ it.obj.obj_name.text = "f" /\ ret.obj.obj_name.text = "x"
    /\ ret.obj.id = 2 /\ it.obj.id = 1

\* C25: for every override of a replace call that returns, the accessor of
\* that name gives, on the result, exactly the value supplied.
C25_OverridesTaken ==
    [][(it.type = "code" /\ ret'.op = "replace" /\ ret'.tag = "Ok")
         => \A f \in DOMAIN ret'.args : Accessor(f, ret'.obj) = ret'.args[f]]_vars

\* An override the string-interning collaborator does not accept.
WrongShape(args) ==
    \/ \E f \in {"co_name", "co_filename"} \cap DOMAIN args : ~as_interned_str(args[f]).some
    \/ \E f \in {"co_names", "co_varnames"} \cap DOMAIN args : ~AllInterned(args[f])

\* C26: replace with an override of the wrong shape returns a type error,
\* makes no object and leaves the receiver as it was; replace never panics.
C26_ReplaceRejects ==
    [][(it.type = "code" /\ ret'.op = "replace")
         => /\ ret'.tag # "Panic"
            /\ WrongShape(ret'.args) => ret'.tag = "TypeError" /\ it' = it]_vars

\* C27: code(...) fails with the type error 'Cannot directly create code
\* object' for every class and argument list, and creates no object.
C27_NoDirectConstruction ==
    [][ret'.op = "new"
         => /\ ret'.tag = "TypeError"
            /\ ret'.msg = "Cannot directly create code object"
            /\ it' = it]_vars

\* A subclass called with two arguments was refused.
C27_Witness ==
    /\ it.type = "code" /\ it.objs = 1
    /\ ret.op = "new" /\ ret.call = [cls |-> "subclass", nargs |-> 2]
    /\ ret.tag = "TypeError"

\* The rendering as written: a comma after the identity, the path as repr
\* of the string, the first line number or -1.
ExpectedRepr(c) ==
    <<"<code object ", c.obj_name.text, " at ", "0x">> \o HexDigits(c.id)
        \o <<", file ", "'", c.source_path.text, "'", ", line ",
             IF c.first_line_number.some THEN ToString(c.first_line_number.v)
             ELSE ToString(-1), ">">>

\* C28: repr of a code object is
\* <code object {name} at {identity}, file {path!r}, line {L}>, L being the
\* first line number or -1 without one; two renderings of one object agree.
C28_Rendering ==
    ret.op = "repr" => ret.text = ExpectedRepr(ret.obj) /\ ret.again = ret.text

\* The elements of the keys or items view of D, as a set: the keys D holds,
\* or the pairs of a key D holds and its value.
ViewElements(D, kind) ==
    IF kind = "keys" THEN { k \in Keys : dict_contains(D, k) }
    ELSE { <<k, dict_get(D, k).value>> : k \in { x \in Keys : dict_contains(D, x) } }

\* C29: &, |, -, ^ and isdisjoint of a keys or items view give the result
\* of the set operation on the elements the views have at that moment (for
\* keys views the keys in both dictionaries, whatever the values and the
\* order of insertion), as a new value; both dictionaries stay as they are.
C29_ViewSetAlgebra ==
    [][ret'.op = "viewop"
         => LET A == ViewElements(d, ret'.kind)
                B == ViewElements(other, ret'.kind)
            IN  /\ d' = d /\ other' = other /\ order' = order
                /\ dict_size(d') = dict_size(d) /\ dict_size(other') = dict_size(other)
                /\ ret'.val = CASE ret'.arg = "__and__" -> A \cap B
                                [] ret'.arg = "__or__" -> A \cup B
                                [] ret'.arg = "__sub__" -> A \ B
                                [] ret'.arg = "__rsub__" -> B \ A
                                [] ret'.arg = "__xor__" -> (A \cup B) \ (A \cap B)
                                [] ret'.arg = "isdisjoint" -> \A x \in A : x \notin B]_vars

\* {1: 1, 2: 1}.keys() & {3: .., 2: 2}.keys() is {2}: the dictionaries give
\* key 2 different values and different places.
C29_Witness ==
    /\ ret.op = "viewop" /\ ret.arg = "__and__" /\ ret.kind = "keys"
    /\ DictItems(d) = <<(<<1, 1>>), <<2, 1>>>>
    /\ DictItems(other) = <<(<<3, 1>>), <<2, 2>>>>
    /\ ret.val = {2}

\* The elements of a sequence without the repetitions, each at the place of
\* its first occurrence.
RECURSIVE FirstOccurrences(_)
FirstOccurrences(keys) ==
    IF keys = <<>> THEN <<>>
    ELSE LET front == FirstOccurrences(Front(keys))
             last == keys[Len(keys)]
         IN  IF \E i \in 1..(Len(keys) - 1) : keys[i] = last THEN front
             ELSE Append(front, last)

\* C30: dict.fromkeys(iterable, value) gives a dictionary of the distinct
\* elements of the iterable, in the order of their first occurrence, each
\* with the one value supplied (None without one); items() lists the pairs
\* in that order and the length is the number of distinct elements.
C30_FromKeys ==
    ret.op = "items"
        => LET exp == FirstOccurrences(ret.keys)
               value == IF ret.hasdef THEN ret.arg ELSE NoneVal
           IN  /\ ret.val = [i \in 1..Len(exp) |-> <<exp[i], value>>]
               /\ ret.n = Cardinality({ ret.keys[i] : i \in 1..Len(ret.keys) })
               /\ ret.n = Len(exp)

\* dict.fromkeys([2, 1, 2]) is {2: None, 1: None}.
C30_Witness ==
    /\ ret.op = "items" /\ ret.keys = <<2, 1, 2>> /\ ~ret.hasdef
    /\ ret.val = <<(<<2, NoneVal>>), <<1, NoneVal>>>> /\ ret.n = 2

\* Every element of the view of A matches an element of the view of B: the
\* key is in B and, for an items view, the two values are identical or
\* equal by value.
ViewWithin(A, B, kind) ==
    \A i \in 1..Len(DictItems(A)) :
        LET k == DictItems(A)[i][1]
            v == DictItems(A)[i][2]
        IN  /\ dict_contains(B, k)
            /\ kind = "keys" \/ v = dict_get(B, k).value
                   \/ bool_eq(v, dict_get(B, k).value)

\* The comparison of two sets of view elements.
SetCompare(A, B, kind, op) ==
    CASE op = "Eq" -> ViewWithin(A, B, kind) /\ ViewWithin(B, A, kind)
      [] op = "Ne" -> ~(ViewWithin(A, B, kind) /\ ViewWithin(B, A, kind))
      [] op = "Le" -> ViewWithin(A, B, kind)
      [] op = "Lt" -> ViewWithin(A, B, kind) /\ ~ViewWithin(B, A, kind)
      [] op = "Ge" -> ViewWithin(B, A, kind)
      [] op = "Gt" -> ViewWithin(B, A, kind) /\ ~ViewWithin(A, B, kind)

\* C31: comparing two views of the same kind follows set semantics for all
\* six operators: == is equality of the key sets (of the pairs, for items
\* views, a pair matching on its key and an identical or equal value), <=
\* is subset, < proper subset, >= and > the same with the operands
\* exchanged, and != is the negation of ==.
C31_ViewComparison ==
    /\ ret.op = "viewcmp"
          => ret.tag = "Ok" /\ ret.val = SetCompare(d, other, ret.kind, ret.arg)
    /\ \A kind \in SetViewKinds :
          ViewSetOps_cmp(d, cls.d, kind, other, cls.other, "Ne").val
              = ~ViewSetOps_cmp(d, cls.d, kind, other, cls.other, "Eq").val

\* One new key was inserted and one other key deleted, in either order.
InsertAndDelete(trail) ==
    /\ Len(trail) = 2
    /\ {trail[1].kind, trail[2].kind} = {"insert", "delete"}
    /\ trail[1].key # trail[2].key

C34_OverwriteKeepsIterator ==
    (ret.op = "next" /\ ret.was = "Active" /\ ret.touch = "overwrite")
        => /\ ret.tag # "RuntimeError"
           /\ it.type = "fwd"
                 => IF ret.tag = "Return"
                    THEN /\ ret.count <= Len(DictItems(d))
                         /\ ret.rkey = ResultKey(it.kind, DictItems(d)[ret.count][1])
                         /\ ret.val = ResultVal(it.kind, DictItems(d)[ret.count][2])
                    ELSE /\ ret.tag = "StopIteration"
                         /\ ret.count = Len(DictItems(d))

\* {1: 1, 2: 1}: after the first item, d[2] = 2 is stored; the next step
\* yields (2, 2).
C34_Witness ==
    /\ ret.op = "next" /\ ret.was = "Active" /\ ret.touch = "overwrite"
    /\ ret.seen = <<[kind |-> "overwrite", key |-> 0]>>
    /\ it.type = "fwd" /\ it.kind = "items"
    /\ ret.tag = "Return" /\ ret.count = 2 /\ ret.rkey = 2 /\ ret.val = 2

RECURSIVE RevTraverse(_, _, _)
RevTraverse(I, D, n) ==
    LET o == DictRevIter_next(I, D)
    IN  IF o.tag = "Return" /\ n > 0
        THEN [count |-> 1 + RevTraverse(o.it, D, n - 1).count,
              tag |-> RevTraverse(o.it, D, n - 1).tag]
        ELSE [count |-> 0, tag |-> o.tag]

\* C35: every next() of a reverse iterator returns (an element, exhaustion
\* or an error) for every dictionary made by inserts and deletes, also when
\* the earliest entries were deleted before the iterator was created and
\* for the empty dictionary; a full reverse traversal of a dictionary with
\* n surviving entries makes exactly n yielding calls, then exhaustion.
C35_ReverseTraversal ==
    /\ (ret.op = "next" /\ it.type = "rev")
          => ret.tag \in {"Return", "StopIteration", "RuntimeError"}
    /\ \A kind \in ViewKinds :
          LET t == RevTraverse(DictRevIter_new(d, kind), d, Len(d.entries) + 1)
          IN  t.count = PyDict_len(d) /\ t.tag = "StopIteration"

\* __length_hint__ of a dictionary iterator.
Hint(I) ==
    IF I.type = "fwd" THEN DictIter_length_hint(I) ELSE DictRevIter_length_hint(I)

\* At iterator I and at every iterator a run of next() over the unchanged
\* dictionary D leads to, the hint is the number of elements still to come.
RECURSIVE HintsExact(_, _)
HintsExact(I, D) ==
    LET o == IF I.type = "fwd" THEN DictIter_next(I, D) ELSE DictRevIter_next(I, D)
    IN  /\ Hint(I) = Len(Drain(I, D))
        /\ o.tag = "Return" => HintsExact(o.it, D)

\* C36: for a forward or reverse dictionary iterator over a dictionary that
\* is not mutated after the iterator's creation, length_hint at any point
\* is the exact number of elements the iterator will still yield, also when
\* entries were deleted before the creation, and 0 for the reverse
\* iterator over an empty dictionary.
C36_ExactLengthHint ==
    \A kind \in ViewKinds :
        /\ HintsExact(DictIter_new(d, kind), d)
        /\ HintsExact(DictRevIter_new(d, kind), d)

\* C37: once a map object has reported exhaustion, whether because a source
\* was exhausted or because the mapper raised the exhaustion signal, a later
\* next() (with no source raising an error) reports exhaustion again,
\* advances no source and does not call the mapper.
C37_ExhaustionSticks ==
    [][(ret.op = "map_next" /\ ret.tag = "StopIteration"
           /\ ret'.op = "map_next" /\ ret'.fault = 0)
         => /\ ret'.tag = "StopIteration"
            /\ ret'.n = 0
            /\ it'.sources = it.sources]_vars

\* C38: when the callable of a callable-sentinel iterator raises, or the
\* comparison of its result with the sentinel raises, next() returns that
\* error and the iterator stays Active: the following next() invokes the
\* callable again; the sequence iterator becomes Exhausted on an error.
C38_ErrorKeepsActive ==
    [][(it.type = "callable" /\ ret'.op = "next")
         => /\ (it.status = "Active" /\ ret'.hasdef)
                  => /\ ret'.tag = "OtherError" /\ ret'.n = 1
                     /\ it'.status = "Active" /\ it'.sentinel = it.sentinel
            /\ (ret.op = "next" /\ ret.tag = "OtherError")
                  => /\ it.status = "Active"
                     /\ ret'.n = 1 /\ it'.calls = it.calls + 1
            /\ \A n \in 0..MaxSeq :
                  LET o == PySequenceIterator_next(PySequenceIterator_new, n, TRUE)
                  IN  o.tag = "OtherError" /\ o.it.status = "Exhausted"]_vars

\* The first next() returned the error of the callable or of the
\* comparison; the second invoked the callable again and yielded.
C38_Witness ==
    /\ it.type = "callable" /\ it.status = "Active"
    /\ it.steps = 2 /\ it.errors = 1 /\ it.calls = 2
    /\ ret.op = "next" /\ ret.tag = "Return"

\* C39: with several threads calling next() on one callable-sentinel
\* iterator, no call invokes the callable once a call has seen the sentinel
\* and set the status to Exhausted, and every call returns: whenever a call
\* is in progress some call can take its next step towards its return, and
\* none panics, also when the callable calls next() on its own iterator.
C39_SharedSafe ==
    it.type = "shared"
        => /\ ~it.late
           /\ ~it.aborted
           /\ (\E t \in Threads : it.frames[t] # <<>>) => ENABLED SharedProgress

====
